---------------------------- MODULE Spec2Model ----------------------------
(***************************************************************************)
(* openack: a file-based mailbox store.                                    *)
(*   app.py       POST /messages  -> handle_send_message -> write_message  *)
(*   fetch.py     GET  /messages  -> fetch_messages_by_id -> archive       *)
(*   dashboard.py admin UI        -> delete_selected_messages              *)
(* Both HTTP services are ThreadingHTTPServer instances: every request     *)
(* runs on its own thread and the threads share the message directories.   *)
(* Each filesystem call of a handler is one step of the worker running it. *)
(***************************************************************************)
EXTENDS Integers, Sequences, FiniteSets, TLC

(* ------------------------------ bounds -------------------------------- *)
\* size of the pool the uuid4() values are drawn from (= envelopes ever written)
MaxIds == 2
\* most uploaded files in one send request
MaxFiles == 1
\* last value of the wall clock (whole seconds)
MaxTime == 2
\* lines of an envelope file that reach the disk in one flush of write_text
FlushLines == 7
\* events from outside in one run: filesystem calls that raise OSError and
\* messages the admin deletes through the dashboard
MaxFaults == 1
\* most characters of an agent name a request carries
MaxName == 2
\* most lines of a message body a request carries
MaxBody == 3
\* most lines of an envelope file found in an inbox
MaxLines == 5
\* most uploaded files of a request whose file names are drawn freely
MaxUploads == 2

\* The request threads alive at once.  ThreadingHTTPServer starts one thread per
\* request without limit; the model runs three at a time, in both mixes.
Pools ==
  { [send |-> {"s1", "s2"}, fetch |-> {}, ids |-> MaxIds],
    [send |-> {"s1"}, fetch |-> {"f1"}, ids |-> MaxIds],
    [send |-> {"s1"}, fetch |-> {"f1", "f2"}, ids |-> MaxIds - 1] }

(* --------------------------- small helpers ---------------------------- *)
Range(s) == {s[i] : i \in 1..Len(s)}

Keep(f, x) == f

Without(f, x) == [y \in (DOMAIN f) \ {x} |-> f[y]]

With(f, x, v) == [y \in (DOMAIN f) \cup {x} |-> IF y = x THEN v ELSE f[y]]

Prefix(s, n) == SubSeq(s, 1, n)

(* ------------------------- names and the directory -------------------- *)
\* characters are one-letter strings; a name is a sequence of characters
ToLower(ch) == CASE ch = "A" -> "a" [] ch = "B" -> "b" [] OTHER -> ch

IsSpace(ch) == ch = " "

\* str.isalnum() of one (already lower-cased) character: true of every Unicode
\* letter and digit, the accented letter included
IsAlnum(ch) == ch \in {"a", "b", "g", "1", "e'"}

RECURSIVE LStrip(_)
LStrip(s) == IF s # <<>> /\ IsSpace(Head(s)) THEN LStrip(Tail(s)) ELSE s

RECURSIVE RStrip(_)
RStrip(s) == IF s # <<>> /\ IsSpace(s[Len(s)]) THEN RStrip(Prefix(s, Len(s) - 1)) ELSE s

\* agent.strip().lower()
StripLower(agent) == [i \in 1..Len(RStrip(LStrip(agent))) |-> ToLower(RStrip(LStrip(agent))[i])]

\* sanitize_agent_name: TRUE when it returns, FALSE when it raises ValueError
SanitizeOk(agent) ==
  /\ StripLower(agent) # <<>>
  /\ \A i \in 1..Len(StripLower(agent)) :
        IsAlnum(StripLower(agent)[i]) \/ StripLower(agent)[i] \in {"-", "_"}

\* sanitize_agent_name: the value returned
sanitize_agent_name(agent) == StripLower(agent)

\* the people directory file (people.yml), as load_valid_people returns it
load_valid_people == {<<"a">>, <<"b">>}

Agents == load_valid_people

\* agent_ids.yml: token -> agent name as written in the file
AgentIdsFile == [t1 |-> <<"a">>, t2 |-> <<"A">>, t3 |-> <<"b">>]

\* the `id` mapping read from agent_ids.yml: key -> agent name as written
VARIABLE agent_ids

\* line 53: str(key).strip() is empty, the entry is skipped
BlankKey(t) == t \in {"", " "}

\* the entries the loop of lines 52-60 does not skip
TokenKeys == {t \in DOMAIN agent_ids : ~BlankKey(t)}

\* a load_agent_id_map that keeps going at an entry naming an invalid or
\* unknown agent and raises only when no entry is left
RaisesOnlyIfEmpty == TokenKeys = {}

\* load_agent_id_map raises ValueError: an entry it does not skip names an
\* invalid or unknown agent (lines 57-59), or no entry is left (lines 48-49,
\* 62-63)
AgentIdMapError ==
  \/ \E t \in TokenKeys :
       \/ ~SanitizeOk(agent_ids[t])
       \/ sanitize_agent_name(agent_ids[t]) \notin load_valid_people
  \/ TokenKeys = {}

load_agent_id_map_any_token ==
  [t \in DOMAIN AgentIdsFile \cup {"zz"} |->
     IF t \in DOMAIN AgentIdsFile THEN sanitize_agent_name(AgentIdsFile[t]) ELSE <<"a">>]

\* load_agent_id_map: the resolved mapping it returns
load_agent_id_map == [t \in TokenKeys |-> sanitize_agent_name(agent_ids[t])]

(* --------------------------- envelope text ---------------------------- *)
\* One line of an envelope file.  t: "H" and "F" are the two marker lines,
\* "blank" a line that is empty after strip(), "kv" a `key: value` line,
\* "dash" a `- <path>` line, "text" any other line.
Line(t, k, v, ts, ag, id, n) ==
  [t |-> t, k |-> k, v |-> v, ts |-> ts, ag |-> ag, id |-> id, n |-> n]

HeaderMarker == Line("H", "", <<>>, 0, <<>>, 0, 0)
FooterMarker == Line("F", "", <<>>, 0, <<>>, 0, 0)
Blank == Line("blank", "", <<>>, 0, <<>>, 0, 0)
Text(s) == Line("text", s, <<>>, 0, <<>>, 0, 0)
\* a text line that ends in a carriage return (the client sent CRLF line ends)
TextCR(s) == Line("text", s, <<"\r">>, 0, <<>>, 0, 0)
KV(k, v, ts) == Line("kv", k, v, ts, <<>>, 0, 0)
ReplyUrl(recipient, sender) == Line("kv", "reply_url", recipient, 0, sender, 0, 0)
\* `- <inbox_dir>/<uuid>-attachment<n><ext>` : the path names a file of ag's
\* inbox; k holds the extension ("" when the uploaded name had none)
DashExt(ag, id, n, ext) == Line("dash", ext, <<>>, 0, ag, id, n)
Dash(ag, id, n) == DashExt(ag, id, n, "")
\* the bytes of an uploaded file
Bytes(n) == Line("bytes", "", <<>>, 0, <<>>, 0, n)

\* file names inside an inbox
MdName(ts, id) == [kind |-> "md", ts |-> ts, id |-> id, n |-> 0, ext |-> ".md"]
AttNameNoUuid(id, n) == [kind |-> "att", ts |-> 0, id |-> 0, n |-> n, ext |-> ""]
\* f"{message_uuid}-attachment{index}" of an upload whose name has no extension
AttName(id, n) == [kind |-> "att", ts |-> 0, id |-> id, n |-> n, ext |-> ""]

\* Path(original_name).suffix of the uploaded names the model draws from: no
\* extension, a plain one, one that ends in a blank and one with a line break
Exts == {"", ".txt", ".txt ", ".t\nxt"}

\* f"{message_uuid}-attachment{index}{ext}"
attachment_name(id, index, ext) == [AttName(id, index) EXCEPT !.ext = ext]

\* str.strip() of a path: a blank at its end goes
StripPath(ext) == IF ext = ".txt " THEN ".txt" ELSE ext

\* the lines f"- {path}" makes in the file: a path with a line break in it
\* makes two, the second without the leading `- `
PathLines(ag, nm) ==
  IF nm.ext = ".t\nxt" THEN << DashExt(ag, nm.id, nm.n, ".t"), Text("xt") >>
  ELSE << DashExt(ag, nm.id, nm.n, nm.ext) >>

\* footer.extend(f"- {path}" for path in attachment_paths), from the k-th path on
RECURSIVE PathBlock(_, _, _, _)
PathBlock(ag, id, exts, k) ==
  IF k > Len(exts) THEN <<>>
  ELSE PathLines(ag, attachment_name(id, k, exts[k])) \o PathBlock(ag, id, exts, k + 1)

\* make_message_filename
make_message_filename(id, ts) == MdName(ts, id)

\* str.strip() of a text held as lines: leading and trailing blank lines go,
\* and so does the carriage return that ends the last line
RECURSIVE StripLines(_)
StripLines(ls) ==
  IF ls = <<>> THEN <<>>
  ELSE IF Head(ls).t = "blank" THEN StripLines(Tail(ls))
  ELSE IF ls[Len(ls)].t = "blank" THEN StripLines(Prefix(ls, Len(ls) - 1))
  ELSE IF ls[Len(ls)] = TextCR(ls[Len(ls)].k) THEN [ls EXCEPT ![Len(ls)] = Text(ls[Len(ls)].k)]
  ELSE ls

\* the lines write_message puts in the envelope file
EnvelopeText(sender, recipient, message, ts, id, exts) ==
  << HeaderMarker, KV("from", sender, 0), KV("to", recipient, 0), KV("sent_at", <<>>, ts), Blank >>
  \o StripLines(message)
  \o << Blank, FooterMarker >>
  \o (IF exts # <<>>
        THEN << KV("attachments", <<>>, 0) >> \o PathBlock(recipient, id, exts, 1)
        ELSE << ReplyUrl(recipient, sender) >>)


(* ------------------------ fetch.py: the decoder ----------------------- *)
\* message_file.read_text(...).splitlines(): the text mode of read_text turns
\* every "\r\n" into "\n", so a line that ended in a carriage return loses it
read_text(lines) ==
  [i \in 1..Len(lines) |-> IF lines[i] = TextCR(lines[i].k) THEN Text(lines[i].k) ELSE lines[i]]

Positions(lines, l) == {i \in 1..Len(lines) : lines[i] = l}

Min(S) == CHOOSE x \in S : \A y \in S : x <= y
Max(S) == CHOOSE x \in S : \A y \in S : x >= y

\* `"=== HEADER ===" not in lines or "=== FOOTER ===" not in lines`
Malformed(lines) ==
  Positions(lines, HeaderMarker) = {} \/ Positions(lines, FooterMarker) = {}

\* lines.index("=== HEADER ===") + 1, as a 1-based position of the first header line
header_start(lines) == Min(Positions(lines, HeaderMarker)) + 1

footer_start_first(lines) == Min(Positions(lines, FooterMarker))

\* len(lines) - 1 - lines[::-1].index("=== FOOTER ==="): the last marker line
footer_start(lines) == Max(Positions(lines, FooterMarker))

\* the blank line that ends the header loop (0 when the loop runs to footer_start)
HeaderEnd(lines) ==
  LET blanks == {i \in header_start(lines)..(footer_start(lines) - 1) : lines[i].t = "blank"}
  IN IF blanks = {} THEN 0 ELSE Min(blanks)

body_start(lines) ==
  IF HeaderEnd(lines) = 0 THEN header_start(lines) ELSE HeaderEnd(lines) + 1

\* the positions whose `key: value` went into the header dict
HeaderKeys(lines, k) ==
  {i \in header_start(lines)..
         ((IF HeaderEnd(lines) = 0 THEN footer_start(lines) ELSE HeaderEnd(lines)) - 1) :
      lines[i].t = "kv" /\ lines[i].k = k}

\* "\n".join(lines[body_start:footer_start]).strip()
message_text(lines) ==
  StripLines(SubSeq(lines, body_start(lines), footer_start(lines) - 1))

\* SelectSeq with the path of each `- <path>` line after the footer marker
attachment_paths(lines) ==
  LET tail == SubSeq(lines, footer_start(lines) + 1, Len(lines))
      dashes == SelectSeq(tail, LAMBDA l : l.t = "dash")
  IN [i \in 1..Len(dashes) |->
        [ag |-> dashes[i].ag,
         nm |-> [kind |-> "att", ts |-> 0, id |-> dashes[i].id, n |-> dashes[i].n,
                 ext |-> StripPath(dashes[i].k)]]]

\* _parse_message_file plus the header.get(...) defaults of fetch_messages_by_id
ParseMessage(lines, mapped_agent) ==
  [ from |-> IF HeaderKeys(lines, "from") = {} THEN <<>>
             ELSE lines[Max(HeaderKeys(lines, "from"))].v,
    to |-> IF HeaderKeys(lines, "to") = {} THEN mapped_agent
           ELSE lines[Max(HeaderKeys(lines, "to"))].v,
    sent_at |-> IF HeaderKeys(lines, "sent_at") = {} THEN 0
                ELSE lines[Max(HeaderKeys(lines, "sent_at"))].ts,
    message |-> message_text(lines) ]


(* ------------------------------- state -------------------------------- *)
VARIABLES
  inboxDirs,   \* agents whose <root>/<agent>/inbox directory exists
  doneDirs,    \* agents whose <root>/<agent>/done directory exists
  inbox,       \* agent -> (file name -> lines of the file)
  done,        \* agent -> (stem of the zip -> the zip file)
  log,         \* transactions.log, one record per line
  now,         \* the wall clock, whole seconds
  uuids,       \* values uuid4() can still return in this run
  snd,         \* send worker -> the request it runs (app.py)
  fch,         \* fetch worker -> the request it runs (fetch.py)
  created,     \* history: envelope paths in the order write_text created them
  attWritten,  \* history: attachment paths write_bytes has written
  collision,   \* history: a writer opened a path another writer had written
  delivered,   \* history: envelope id -> number of 200 responses that carried it
  faults,      \* history: OSErrors raised and dashboard deletions so far
  ui           \* the browser session of the dashboard (dashboard.py)

vars == << inboxDirs, doneDirs, inbox, done, log, now, uuids, snd, fch,
           created, attWritten, collision, delivered, faults, ui, agent_ids >>

fsVars == << inboxDirs, doneDirs, inbox, done, log >>
histVars == << created, attWritten, collision, delivered >>
envVars == << faults, ui, agent_ids >>

Ids == 1..MaxIds

SendWorkers == DOMAIN snd
FetchWorkers == DOMAIN fch

\* the fields of a POST /messages request as do_POST hands them on: nfiles
\* uploaded files whose names have no extension
Request(sender, recipients, message, nfiles) ==
  [sender |-> sender, recipients |-> recipients, message |-> message, nfiles |-> nfiles,
   exts |-> [i \in 1..nfiles |-> ""]]

\* the same with uploaded files whose names have the extensions exts
Upload(sender, recipients, message, exts) ==
  [sender |-> sender, recipients |-> recipients, message |-> message, nfiles |-> Len(exts),
   exts |-> exts]

NoRequest == Request(<<>>, <<>>, <<>>, 0)

\* req: the request as received; detail: the names the error message quotes;
\* deliveries: the list handle_send_message returns
IdleSend ==
  [pc |-> "idle", err |-> "", detail |-> <<>>, req |-> NoRequest,
   sender |-> <<>>, recips |-> <<>>, message |-> <<>>,
   nfiles |-> 0, exts |-> <<>>, sent_at |-> 0, idx |-> 0, uuid |-> 0, k |-> 0,
   deliveries |-> <<>>]

NoCur == [from |-> <<>>, to |-> <<>>, sent_at |-> 0, message |-> <<>>]

\* what a run of the dashboard script gets from the browser: the query string
\* of the page address and the widgets of the login form
Form(query, username, password, submitted) ==
  [query |-> query, username |-> username, password |-> password, submitted |-> submitted]

NoForm == Form("", "", "", FALSE)

\* a path: absolute or not, and its components
Path(abs, parts) == [abs |-> abs, parts |-> parts]

\* nothing is open in the message viewer
NoOpen == [names |-> {}, attachment |-> Path(FALSE, <<>>), member |-> Path(FALSE, <<>>)]

\* no browser has opened the dashboard.  authenticated is
\* st.session_state.authenticated; page is what the last run of the script
\* rendered; records and details are what scan_messages returned to it;
\* resolved is what the viewer found for the attachment opened
NoSession ==
  [page |-> "none", authenticated |-> FALSE, error |-> "", form |-> NoForm,
   records |-> <<>>, details |-> <<>>, opened |-> NoOpen, resolved |-> <<>>]

IdleFetch ==
  [pc |-> "idle", err |-> "", agent |-> <<>>, list |-> <<>>, i |-> 0, paths |-> <<>>, j |-> 0,
   cur |-> NoCur, atts |-> <<>>, msgs |-> <<>>, zipgone |-> FALSE]

Init ==
  /\ inboxDirs = {}
  /\ doneDirs = {}
  /\ inbox = [a \in Agents |-> <<>>]
  /\ done = [a \in Agents |-> <<>>]
  /\ log = <<>>
  /\ now = 1
  /\ \E pool \in Pools :
       /\ snd = [w \in pool.send |-> IdleSend]
       /\ fch = [f \in pool.fetch |-> IdleFetch]
       /\ uuids = 1..pool.ids
  /\ created = <<>>
  /\ attWritten = {}
  /\ collision = FALSE
  /\ delivered = [i \in Ids |-> 0]
  /\ faults = 0
  /\ ui = NoSession
  /\ agent_ids = AgentIdsFile

(* --------------------- app.py: POST /messages ------------------------- *)
\* the requests the model draws from: two that pass validation and one for
\* each check of handle_send_message that can fail
Requests ==
  { Request(<<"a">>, << <<"a">> >>, <<Text("hi")>>, MaxFiles),
    Request(<<"a">>, << <<"A", " ">>, <<"b">> >>, <<Text("hi"), FooterMarker, Text("yo")>>, 0),
    Request(<<"a", "!">>, << <<"a">> >>, <<Text("hi")>>, 0),
    Request(<<"a">>, << <<"a">>, <<"!">> >>, <<Text("hi")>>, 0),
    Request(<<"g">>, << <<"a">> >>, <<Text("hi")>>, 0),
    Request(<<"a">>, <<>>, <<Text("hi")>>, 0),
    Request(<<"a">>, << <<"a">>, <<"g">> >>, <<Text("hi")>>, MaxFiles),
    Request(<<"a">>, << <<"a">> >>, <<Blank>>, MaxFiles) }

CleanList(recipients) == [i \in 1..Len(recipients) |-> sanitize_agent_name(recipients[i])]

ValidateNoBodyCheck(sender, recipients, message) ==
  IF ~SanitizeOk(sender) THEN "InvalidAgentName"
  ELSE IF \E i \in 1..Len(recipients) : ~SanitizeOk(recipients[i]) THEN "InvalidAgentName"
  ELSE IF sanitize_agent_name(sender) \notin load_valid_people THEN "UnknownSender"
  ELSE IF recipients = <<>> THEN "NoRecipients"
  ELSE IF \E i \in 1..Len(recipients) : CleanList(recipients)[i] \notin load_valid_people
    THEN "UnknownRecipients"
  ELSE "ok"

\* a handle_send_message that looks the sender up in the directory (lines
\* 110-111) before it canonicalizes the recipients (line 108)
ValidateSenderFirst(sender, recipients, message) ==
  IF ~SanitizeOk(sender) THEN "InvalidAgentName"
  ELSE IF sanitize_agent_name(sender) \notin load_valid_people THEN "UnknownSender"
  ELSE IF \E i \in 1..Len(recipients) : ~SanitizeOk(recipients[i]) THEN "InvalidAgentName"
  ELSE IF recipients = <<>> THEN "NoRecipients"
  ELSE IF \E i \in 1..Len(recipients) : CleanList(recipients)[i] \notin load_valid_people
    THEN "UnknownRecipients"
  ELSE IF StripLines(message) = <<>> THEN "EmptyBody"
  ELSE "ok"

\* handle_send_message, lines 105-121: the error raised, or "ok"
Validate(sender, recipients, message) ==
  IF ~SanitizeOk(sender) THEN "InvalidAgentName"
  ELSE IF \E i \in 1..Len(recipients) : ~SanitizeOk(recipients[i]) THEN "InvalidAgentName"
  ELSE IF sanitize_agent_name(sender) \notin load_valid_people THEN "UnknownSender"
  ELSE IF recipients = <<>> THEN "NoRecipients"
  ELSE IF \E i \in 1..Len(recipients) : CleanList(recipients)[i] \notin load_valid_people
    THEN "UnknownRecipients"
  ELSE IF StripLines(message) = <<>> THEN "EmptyBody"
  ELSE "ok"

\* deliveries accepted requests still have to make (each takes one uuid)
Pending(w) ==
  IF snd[w].pc \in {"uuid"} THEN Len(snd[w].recips) - snd[w].idx + 1
  ELSE IF snd[w].pc \in {"att", "create", "write", "log"} THEN Len(snd[w].recips) - snd[w].idx
  ELSE 0

RECURSIVE SumPending(_)
SumPending(S) ==
  IF S = {} THEN 0 ELSE LET w == CHOOSE x \in S : TRUE IN Pending(w) + SumPending(S \ {w})

invalid_recipients_first(recipients) ==
  << CleanList(recipients)[Min({i \in 1..Len(recipients) :
                                 CleanList(recipients)[i] \notin load_valid_people})] >>

\* line 116: the recipients that are not in the directory, in request order
invalid_recipients(recipients) ==
  SelectSeq(CleanList(recipients), LAMBDA person : person \notin load_valid_people)

\* the first name sanitize_agent_name raises on: the sender, then the recipients
FirstInvalidName(sender, recipients) ==
  IF ~SanitizeOk(sender) THEN sender
  ELSE recipients[Min({i \in 1..Len(recipients) : ~SanitizeOk(recipients[i])})]

\* the names the message of the ValueError quotes
ErrorDetail(q, err) ==
  CASE err = "InvalidAgentName" -> << FirstInvalidName(q.sender, q.recipients) >>
    [] err = "UnknownSender" -> << sanitize_agent_name(q.sender) >>
    [] err = "UnknownRecipients" -> invalid_recipients(q.recipients)
    [] OTHER -> <<>>

\* handle_send_message, lines 105-123, run on request q at time t: the worker
\* either holds the error do_POST answers 400 with or starts the deliveries
Started(q, t) ==
  LET err == Validate(q.sender, q.recipients, q.message) IN
    IF err # "ok"
    THEN [IdleSend EXCEPT !.pc = "rejected", !.err = err, !.detail = ErrorDetail(q, err),
                          !.req = q]
    ELSE [IdleSend EXCEPT !.pc = "uuid", !.req = q,
                          !.sender = sanitize_agent_name(q.sender),
                          !.recips = CleanList(q.recipients),
                          !.message = q.message, !.nfiles = q.nfiles, !.exts = q.exts,
                          !.sent_at = t, !.idx = 1]

\* do_POST up to the first write_message: the request q arrives at time t, is
\* parsed and validated, and sent_at is taken from the clock (line 123)
SendStart(w, q, t) ==
  /\ snd[w].pc = "idle"
  /\ t >= now
  /\ now' = t
  /\ Validate(q.sender, q.recipients, q.message) = "ok" =>
        SumPending(SendWorkers) + Len(q.recipients) <= Cardinality(uuids)
  /\ snd' = [snd EXCEPT ![w] = Started(q, t)]
  /\ UNCHANGED << fsVars, uuids, fch, histVars, envVars >>

\* the same for a request the worker has already read from its socket
SendValidate(w) ==
  /\ snd[w].pc = "recv"
  /\ Validate(snd[w].req.sender, snd[w].req.recipients, snd[w].req.message) = "ok" =>
        SumPending(SendWorkers) + Len(snd[w].req.recipients) <= Cardinality(uuids)
  /\ snd' = [snd EXCEPT ![w] = Started(snd[w].req, now)]
  /\ UNCHANGED << fsVars, now, uuids, fch, histVars, envVars >>

FirstRecipient(w) == snd[w].recips[1]

\* the recipient the comprehension of line 124 is at
Recipient(w) == snd[w].recips[snd[w].idx]

\* uuid4(): a value no earlier call returned
FreshIds == uuids

\* write_message, lines 66-67: uuid4().hex and ensure_inbox
SendUuid(w) ==
  /\ snd[w].pc = "uuid"
  /\ \E u \in FreshIds :
       /\ uuids' = uuids \ {u}
       /\ snd' = [snd EXCEPT ![w].uuid = u, ![w].k = 1,
                             ![w].pc = IF snd[w].nfiles > 0 THEN "att" ELSE "create"]
  /\ inboxDirs' = inboxDirs \cup {Recipient(w)}
  /\ UNCHANGED << doneDirs, inbox, done, log, now, fch, histVars, envVars >>

\* write_message, lines 70-75: target.write_bytes(content) of the k-th file
SendAttachment(w) ==
  /\ snd[w].pc = "att"
  /\ LET r == Recipient(w)
         nm == attachment_name(snd[w].uuid, snd[w].k, snd[w].exts[snd[w].k])
     IN /\ inbox' = [inbox EXCEPT ![r] = With(inbox[r], nm, <<Bytes(snd[w].k)>>)]
        /\ collision' = (collision \/ [ag |-> r, nm |-> nm] \in attWritten)
        /\ attWritten' = attWritten \cup {[ag |-> r, nm |-> nm]}
  /\ snd' = [snd EXCEPT ![w].k = snd[w].k + 1,
                        ![w].pc = IF snd[w].k < snd[w].nfiles THEN "att" ELSE "create"]
  /\ UNCHANGED << inboxDirs, doneDirs, done, log, now, uuids, fch, created, delivered, envVars >>

DeliveryTimeNow(w) == now

\* the sent_at handle_send_message took once (line 123) and hands to every
\* write_message call
DeliveryTime(w) == snd[w].sent_at

MessageFile(w) == make_message_filename(snd[w].uuid, DeliveryTime(w))

FirstLineOnly(w) ==
  Prefix(EnvelopeText(snd[w].sender, Recipient(w), snd[w].message, DeliveryTime(w),
                      snd[w].uuid, snd[w].exts), 1)

FullText(w) ==
  EnvelopeText(snd[w].sender, Recipient(w), snd[w].message, DeliveryTime(w),
               snd[w].uuid, snd[w].exts)

\* write_message, line 93: message_file.write_text opens the file for writing
SendCreate(w) ==
  /\ snd[w].pc = "create"
  /\ LET r == Recipient(w)
         p == [ag |-> r, nm |-> MessageFile(w)]
     IN /\ inbox' = [inbox EXCEPT ![r] = With(inbox[r], MessageFile(w), <<>>)]
        /\ collision' = (collision \/ p \in Range(created))
        /\ created' = Append(created, p)
  /\ snd' = [snd EXCEPT ![w].pc = "write"]
  /\ UNCHANGED << inboxDirs, doneDirs, done, log, now, uuids, fch, attWritten, delivered, envVars >>

\* write_message, line 93: the text reaches the file, in one flush or in several;
\* an unlinked file takes the rest of the text unseen
SendWrite(w) ==
  /\ snd[w].pc = "write"
  /\ LET r == Recipient(w)
         nm == MessageFile(w)
     IN IF nm \in DOMAIN inbox[r]
        THEN LET n == IF Len(inbox[r][nm]) + FlushLines < Len(FullText(w))
                      THEN Len(inbox[r][nm]) + FlushLines ELSE Len(FullText(w))
             IN /\ inbox' = [inbox EXCEPT ![r][nm] = Prefix(FullText(w), n)]
                /\ snd' = [snd EXCEPT ![w].pc = IF n = Len(FullText(w)) THEN "log" ELSE "write"]
        ELSE /\ inbox' = inbox
             /\ snd' = [snd EXCEPT ![w].pc = "log"]
  /\ UNCHANGED << inboxDirs, doneDirs, done, log, now, uuids, fch, histVars, envVars >>

LogLine(sender, recipient, sent_at) == [from |-> sender, to |-> recipient, datetime |-> sent_at]

write_transaction_log_truncating(sender, recipient, sent_at) ==
  << LogLine(sender, recipient, sent_at) >>

\* write_transaction_log: one line appended
write_transaction_log(sender, recipient, sent_at) ==
  Append(log, LogLine(sender, recipient, sent_at))

\* write_message, lines 95-101, and the next turn of the comprehension of line 124
\* the dict write_message returns (lines 97-101)
Delivery(w) ==
  [recipient |-> Recipient(w), message_file |-> MessageFile(w),
   attachments |-> [i \in 1..snd[w].nfiles |-> attachment_name(snd[w].uuid, i, snd[w].exts[i])]]

\* the dict handle_send_message returns (lines 126-132), answered with 200
Response(w) ==
  [IdleSend EXCEPT !.pc = "ok", !.req = snd[w].req,
                   !.idx = snd[w].idx + 1, !.sender = snd[w].sender,
                   !.recips = snd[w].recips, !.sent_at = snd[w].sent_at,
                   !.deliveries = Append(snd[w].deliveries, Delivery(w))]

SendLog(w) ==
  /\ snd[w].pc = "log"
  /\ log' = write_transaction_log(snd[w].sender, Recipient(w), DeliveryTime(w))
  /\ snd' = IF snd[w].idx < Len(snd[w].recips)
            THEN [snd EXCEPT ![w].idx = snd[w].idx + 1, ![w].pc = "uuid", ![w].uuid = 0, ![w].k = 0,
                             ![w].deliveries = Append(@, Delivery(w))]
            ELSE [snd EXCEPT ![w] = Response(w)]
  /\ UNCHANGED << inboxDirs, doneDirs, inbox, done, now, uuids, fch, histVars, envVars >>

RollbackDeliveries(w, box) ==
  [ag \in DOMAIN box |->
     IF ag \in Range(Prefix(snd[w].recips, snd[w].idx - 1))
     THEN [nm \in {x \in DOMAIN box[ag] : ~(x.kind = "md" /\ x.ts = snd[w].sent_at)} |-> box[ag][nm]]
     ELSE box[ag]]

\* do_POST, lines 307-309: the handler of a storage error answers 500 and
\* leaves the inboxes, the earlier deliveries of the call included, as they are
KeepDeliveries(w, box) == box

\* a filesystem call of write_message raises OSError: do_POST answers 500.
\* A failed write_bytes or write_text leaves what it had written.
SendFail(w) ==
  /\ snd[w].pc \in {"uuid", "att", "create", "write", "log"}
  /\ faults < MaxFaults
  /\ faults' = faults + 1
  /\ UNCHANGED << ui, agent_ids >>
  /\ snd' = [snd EXCEPT ![w] = [IdleSend EXCEPT !.pc = "error", !.err = "StorageFailure",
                                               !.idx = snd[w].idx]]
  /\ \/ inbox' = KeepDeliveries(w, inbox)
     \/ /\ snd[w].pc = "att"
        /\ inbox' = [KeepDeliveries(w, inbox) EXCEPT ![Recipient(w)] =
                       With(@, attachment_name(snd[w].uuid, snd[w].k, snd[w].exts[snd[w].k]), <<>>)]
  /\ UNCHANGED << inboxDirs, doneDirs, done, log, now, uuids, fch, histVars >>

\* the response is sent and the thread ends
SendReturn(w) ==
  /\ snd[w].pc \in {"rejected", "error", "ok"}
  /\ snd' = [snd EXCEPT ![w] = IdleSend]
  /\ UNCHANGED << fsVars, now, uuids, fch, histVars, envVars >>


(* --------------------- fetch.py: GET /messages ------------------------ *)
TokenInputs == {"t1", "t2", "zz"}

\* file names sort as strings: the timestamp first, then the uuid
NameLess(x, y) == x.ts < y.ts \/ (x.ts = y.ts /\ x.id < y.id)
NameGreater(x, y) == NameLess(y, x)

RECURSIVE SortedDescending(_)
SortedDescending(S) ==
  IF S = {} THEN <<>>
  ELSE LET m == CHOOSE x \in S : \A y \in S \ {x} : NameGreater(x, y)
       IN <<m>> \o SortedDescending(S \ {m})

\* sorted(names)
RECURSIVE Sorted(_)
Sorted(S) ==
  IF S = {} THEN <<>>
  ELSE LET m == CHOOSE x \in S : \A y \in S \ {x} : NameLess(x, y)
       IN <<m>> \o Sorted(S \ {m})

GlobAny(ag) == DOMAIN inbox[ag]

\* inbox_dir.glob("*.md")
GlobMd(ag) == {nm \in DOMAIN inbox[ag] : nm.kind = "md"}

Exists(p) == p.ag \in Agents /\ p.nm \in DOMAIN inbox[p.ag]

CurFile(f) == fch[f].list[fch[f].i]
CurPath(f) == fch[f].paths[fch[f].j]

\* fetch_messages_by_id, lines 123-133: the token is resolved and the inbox listed
FetchStart(f, token) ==
  /\ fch[f].pc = "idle"
  /\ fch' = [fch EXCEPT ![f] =
       IF AgentIdMapError THEN [IdleFetch EXCEPT !.pc = "rejected", !.err = "BadMapping"]
       ELSE IF token \notin DOMAIN load_agent_id_map
         THEN [IdleFetch EXCEPT !.pc = "rejected", !.err = "UnknownToken"]
       ELSE LET ag == load_agent_id_map[token] IN
         IF ag \notin inboxDirs THEN [IdleFetch EXCEPT !.pc = "ret", !.agent = ag]
         ELSE IF GlobMd(ag) = {} THEN [IdleFetch EXCEPT !.pc = "ret", !.agent = ag]
         ELSE [IdleFetch EXCEPT !.pc = "read", !.agent = ag, !.list = Sorted(GlobMd(ag)), !.i = 1]]
  /\ UNCHANGED << fsVars, now, uuids, snd, histVars, envVars >>

\* the record appended to messages (lines 142-150); file names the envelope file
Message(f) ==
  [file |-> CurFile(f), from |-> fch[f].cur.from, to |-> fch[f].cur.to,
   sent_at |-> fch[f].cur.sent_at, message |-> fch[f].cur.message, attachments |-> fch[f].atts]

\* _parse_message_file (line 134): read_text, then the decoder
FetchRead(f) ==
  /\ fch[f].pc = "read"
  /\ LET ag == fch[f].agent
         nm == CurFile(f)
     IN IF nm \notin DOMAIN inbox[ag]
        THEN fch' = [fch EXCEPT ![f] = [IdleFetch EXCEPT !.pc = "error", !.err = "FileNotFound"]]
        ELSE IF Malformed(read_text(inbox[ag][nm]))
        THEN fch' = [fch EXCEPT ![f].pc = "rejected", ![f].err = "MalformedEnvelope"]
        ELSE fch' = [fch EXCEPT ![f].cur = ParseMessage(read_text(inbox[ag][nm]), ag),
                                ![f].paths = attachment_paths(read_text(inbox[ag][nm])),
                                ![f].atts = <<>>,
                                ![f].j = 1,
                                ![f].pc = IF attachment_paths(read_text(inbox[ag][nm])) = <<>>
                                          THEN "append" ELSE "att_chk"]
  /\ UNCHANGED << fsVars, now, uuids, snd, histVars, envVars >>

\* line 138: attachment.exists()
FetchAttExists(f) ==
  /\ fch[f].pc = "att_chk"
  /\ fch' = IF Exists(CurPath(f)) THEN [fch EXCEPT ![f].pc = "att_read"]
            ELSE IF fch[f].j < Len(fch[f].paths) THEN [fch EXCEPT ![f].j = fch[f].j + 1]
            ELSE [fch EXCEPT ![f].pc = "append"]
  /\ UNCHANGED << fsVars, now, uuids, snd, histVars, envVars >>

\* lines 139-140: attachment.read_bytes(), base64, append
FetchAttRead(f) ==
  /\ fch[f].pc = "att_read"
  /\ LET p == CurPath(f) IN
       IF ~Exists(p)
       THEN fch' = [fch EXCEPT ![f] = [IdleFetch EXCEPT !.pc = "error", !.err = "FileNotFound"]]
       ELSE fch' = [fch EXCEPT ![f].atts = Append(@, [file |-> p.nm, content |-> inbox[p.ag][p.nm]]),
                               ![f].j = IF fch[f].j < Len(fch[f].paths) THEN fch[f].j + 1 ELSE fch[f].j,
                               ![f].pc = IF fch[f].j < Len(fch[f].paths) THEN "att_chk" ELSE "append"]
  /\ UNCHANGED << fsVars, now, uuids, snd, histVars, envVars >>

(* ----------------- fetch.py: _archive_processed_message --------------- *)
ZipPcs == {"zip_msg_chk", "zip_msg", "zip_att_chk", "zip_att", "zip_close"}

NewZip(f) == [members |-> <<>>, closed |-> FALSE, corrupt |-> FALSE, owner |-> f]

\* the zip f has open is still the file at zip_path and no later open truncated it
Owns(f) ==
  /\ ~fch[f].zipgone
  /\ CurFile(f) \in DOMAIN done[fch[f].agent]
  /\ done[fch[f].agent][CurFile(f)].owner = f
  /\ ~done[fch[f].agent][CurFile(f)].corrupt

Damaged(z) == [z EXCEPT !.corrupt = TRUE]

\* archive.write(path, arcname=path.name) on the open zip
ZipWrite(f, nm, content) ==
  LET ag == fch[f].agent
      stem == CurFile(f)
  IN IF fch[f].zipgone \/ stem \notin DOMAIN done[ag] THEN done
     ELSE IF Owns(f) THEN [done EXCEPT ![ag][stem].members = With(@, nm, content)]
     ELSE [done EXCEPT ![ag][stem] = Damaged(@)]

ZipLeftOpen(f) == done

\* ZipFile.close(): the central directory is written
ZipClose(f) ==
  LET ag == fch[f].agent
      stem == CurFile(f)
  IN IF fch[f].zipgone \/ stem \notin DOMAIN done[ag] THEN done
     ELSE IF Owns(f) THEN [done EXCEPT ![ag][stem].closed = TRUE]
     ELSE [done EXCEPT ![ag][stem] = Damaged(@)]

\* lines 142-150 and 104-108: messages.append, done_dir.mkdir, ZipFile(zip_path, "w")
FetchZipOpen(f) ==
  /\ fch[f].pc = "append"
  /\ doneDirs' = doneDirs \cup {fch[f].agent}
  /\ done' = [done EXCEPT ![fch[f].agent] = With(@, CurFile(f), NewZip(f))]
  /\ fch' = [fch EXCEPT ![f].msgs = Append(@, Message(f)), ![f].zipgone = FALSE,
                        ![f].pc = "zip_msg_chk"]
  /\ UNCHANGED << inboxDirs, inbox, log, now, uuids, snd, histVars, envVars >>

AfterZipMsg(f) == IF fch[f].paths = <<>> THEN "zip_close" ELSE "zip_att_chk"

\* line 109: message_file.exists()
FetchZipMsgExists(f) ==
  /\ fch[f].pc = "zip_msg_chk"
  /\ fch' = [fch EXCEPT ![f].j = 1,
                        ![f].pc = IF CurFile(f) \in DOMAIN inbox[fch[f].agent] THEN "zip_msg"
                                  ELSE AfterZipMsg(f)]
  /\ UNCHANGED << fsVars, now, uuids, snd, histVars, envVars >>

\* line 110: archive.write(message_file); a missing file raises inside the with
\* block, whose exit closes the zip
FetchZipMsg(f) ==
  /\ fch[f].pc = "zip_msg"
  /\ LET ag == fch[f].agent
         nm == CurFile(f)
     IN IF nm \in DOMAIN inbox[ag]
        THEN /\ done' = ZipWrite(f, nm, inbox[ag][nm])
             /\ fch' = [fch EXCEPT ![f].pc = AfterZipMsg(f)]
        ELSE /\ done' = ZipClose(f)
             /\ fch' = [fch EXCEPT ![f] = [IdleFetch EXCEPT !.pc = "error", !.err = "FileNotFound"]]
  /\ UNCHANGED << inboxDirs, doneDirs, inbox, log, now, uuids, snd, histVars, envVars >>

NextPath(f, again, after) ==
  IF fch[f].j < Len(fch[f].paths)
  THEN [fch EXCEPT ![f].j = fch[f].j + 1, ![f].pc = again]
  ELSE [fch EXCEPT ![f].j = 1, ![f].pc = after]

\* line 112: attachment.exists()
FetchZipAttExists(f) ==
  /\ fch[f].pc = "zip_att_chk"
  /\ fch' = IF Exists(CurPath(f)) THEN [fch EXCEPT ![f].pc = "zip_att"]
            ELSE NextPath(f, "zip_att_chk", "zip_close")
  /\ UNCHANGED << fsVars, now, uuids, snd, histVars, envVars >>

\* line 113: archive.write(attachment, arcname=attachment.name)
FetchZipAtt(f) ==
  /\ fch[f].pc = "zip_att"
  /\ LET p == CurPath(f) IN
       IF Exists(p)
       THEN /\ done' = ZipWrite(f, p.nm, inbox[p.ag][p.nm])
            /\ fch' = NextPath(f, "zip_att_chk", "zip_close")
       ELSE /\ done' = ZipClose(f)
            /\ fch' = [fch EXCEPT ![f] = [IdleFetch EXCEPT !.pc = "error", !.err = "FileNotFound"]]
  /\ UNCHANGED << inboxDirs, doneDirs, inbox, log, now, uuids, snd, histVars, envVars >>

\* the with block of line 108 ends: the zip is closed
FetchZipClose(f) ==
  /\ fch[f].pc = "zip_close"
  /\ done' = ZipClose(f)
  /\ fch' = [fch EXCEPT ![f].pc = "unl_msg_chk"]
  /\ UNCHANGED << inboxDirs, doneDirs, inbox, log, now, uuids, snd, histVars, envVars >>

\* the inbox is listed again after every envelope
AfterUnlinksRescan(f) ==
  IF GlobMd(fch[f].agent) # {}
  THEN [fch EXCEPT ![f].list = Sorted(GlobMd(fch[f].agent)), ![f].i = 1, ![f].pc = "read",
                   ![f].cur = NoCur, ![f].paths = <<>>, ![f].atts = <<>>, ![f].j = 0,
                   ![f].zipgone = FALSE]
  ELSE [fch EXCEPT ![f].pc = "ret", ![f].cur = NoCur,
                   ![f].paths = <<>>, ![f].atts = <<>>, ![f].j = 0, ![f].zipgone = FALSE]

AfterUnlinks(f) ==
  IF fch[f].i < Len(fch[f].list)
  THEN [fch EXCEPT ![f].i = fch[f].i + 1, ![f].pc = "read", ![f].cur = NoCur,
                   ![f].paths = <<>>, ![f].atts = <<>>, ![f].j = 0, ![f].zipgone = FALSE]
  ELSE [fch EXCEPT ![f].pc = "ret", ![f].cur = NoCur,
                   ![f].paths = <<>>, ![f].atts = <<>>, ![f].j = 0, ![f].zipgone = FALSE]

AfterUnlinkMsg(f) ==
  IF fch[f].paths = <<>> THEN AfterUnlinks(f) ELSE [fch EXCEPT ![f].j = 1, ![f].pc = "unl_att_chk"]

\* line 115: message_file.exists()
FetchUnlinkMsgExists(f) ==
  /\ fch[f].pc = "unl_msg_chk"
  /\ fch' = IF CurFile(f) \in DOMAIN inbox[fch[f].agent] THEN [fch EXCEPT ![f].pc = "unl_msg"]
            ELSE AfterUnlinkMsg(f)
  /\ UNCHANGED << fsVars, now, uuids, snd, histVars, envVars >>

\* line 116: message_file.unlink()
FetchUnlinkMsg(f) ==
  /\ fch[f].pc = "unl_msg"
  /\ LET ag == fch[f].agent
         nm == CurFile(f)
     IN IF nm \in DOMAIN inbox[ag]
        THEN /\ inbox' = [inbox EXCEPT ![ag] = Without(@, nm)]
             /\ fch' = AfterUnlinkMsg(f)
        ELSE /\ inbox' = inbox
             /\ fch' = [fch EXCEPT ![f] = [IdleFetch EXCEPT !.pc = "error", !.err = "FileNotFound"]]
  /\ UNCHANGED << inboxDirs, doneDirs, done, log, now, uuids, snd, histVars, envVars >>

AfterUnlinkAtt(f) ==
  IF fch[f].j < Len(fch[f].paths)
  THEN [fch EXCEPT ![f].j = fch[f].j + 1, ![f].pc = "unl_att_chk"]
  ELSE AfterUnlinks(f)

\* line 118: attachment.exists()
FetchUnlinkAttExists(f) ==
  /\ fch[f].pc = "unl_att_chk"
  /\ fch' = IF Exists(CurPath(f)) THEN [fch EXCEPT ![f].pc = "unl_att"] ELSE AfterUnlinkAtt(f)
  /\ UNCHANGED << fsVars, now, uuids, snd, histVars, envVars >>

\* line 119: attachment.unlink()
FetchUnlinkAtt(f) ==
  /\ fch[f].pc = "unl_att"
  /\ LET p == CurPath(f) IN
       IF Exists(p)
       THEN /\ inbox' = [inbox EXCEPT ![p.ag] = Without(@, p.nm)]
            /\ fch' = AfterUnlinkAtt(f)
       ELSE /\ inbox' = inbox
            /\ fch' = [fch EXCEPT ![f] = [IdleFetch EXCEPT !.pc = "error", !.err = "FileNotFound"]]
  /\ UNCHANGED << inboxDirs, doneDirs, done, log, now, uuids, snd, histVars, envVars >>

\* line 154 and do_GET line 260: `return messages`, answered with 200
FetchRespond(f) ==
  /\ fch[f].pc = "ret"
  /\ fch' = [fch EXCEPT ![f].pc = "ok"]
  /\ delivered' = [i \in Ids |->
        delivered[i] + Cardinality({n \in 1..Len(fch[f].msgs) : fch[f].msgs[n].file.id = i})]
  /\ UNCHANGED << fsVars, now, uuids, snd, created, attWritten, collision, envVars >>

\* a filesystem call of the fetch raises OSError (or the process dies): the call
\* ends without a result.  Inside the with block the zip is closed on the way
\* out when the close itself succeeds, and is left without its directory otherwise.
FetchFail(f) ==
  /\ fch[f].pc \in {"read", "att_chk", "att_read", "append", "unl_msg_chk", "unl_msg",
                    "unl_att_chk", "unl_att"} \cup ZipPcs
  /\ faults < MaxFaults
  /\ faults' = faults + 1
  /\ UNCHANGED << ui, agent_ids >>
  /\ fch' = [fch EXCEPT ![f] = [IdleFetch EXCEPT !.pc = "error", !.err = "StorageFailure"]]
  /\ \/ done' = done
     \/ fch[f].pc \in ZipPcs /\ done' = ZipClose(f)
  /\ UNCHANGED << inboxDirs, doneDirs, inbox, log, now, uuids, snd, histVars >>

\* the response is sent and the thread ends
FetchReturn(f) ==
  /\ fch[f].pc \in {"rejected", "error", "ok"}
  /\ fch' = [fch EXCEPT ![f] = IdleFetch]
  /\ UNCHANGED << fsVars, now, uuids, snd, histVars, envVars >>

(* ------------- dashboard.py: delete_selected_messages ----------------- *)
\* an id of the form inbox::<path>: every *.md file scan_messages lists
DeleteInboxMessage(ag, nm) ==
  /\ nm \in GlobMd(ag)
  /\ faults < MaxFaults
  /\ faults' = faults + 1
  /\ UNCHANGED << ui, agent_ids >>
  /\ inbox' = [inbox EXCEPT ![ag] = Without(@, nm)]
  /\ UNCHANGED << inboxDirs, doneDirs, done, log, now, uuids, snd, fch, histVars >>

\* an id of the form done::<zip>::<member>: a zip scan_messages could read and
\* that holds a .md member.  A fetch that still has the zip open keeps writing
\* to the unlinked file.
DeleteDoneMessage(ag, stem) ==
  /\ stem \in DOMAIN done[ag]
  /\ faults < MaxFaults
  /\ faults' = faults + 1
  /\ UNCHANGED << ui, agent_ids >>
  /\ done[ag][stem].closed /\ ~done[ag][stem].corrupt
  /\ \E m \in DOMAIN done[ag][stem].members : m.kind = "md"
  /\ done' = [done EXCEPT ![ag] = Without(@, stem)]
  /\ fch' = [f \in FetchWorkers |->
               IF fch[f].pc \in ZipPcs /\ fch[f].agent = ag /\ CurFile(f) = stem
               THEN [fch[f] EXCEPT !.zipgone = TRUE] ELSE fch[f]]
  /\ UNCHANGED << inboxDirs, doneDirs, inbox, log, now, uuids, snd, histVars >>

(* ---------------------------- specification --------------------------- *)
Next ==
  \/ \E w \in SendWorkers, q \in Requests, t \in 1..MaxTime : SendStart(w, q, t)
  \/ \E w \in SendWorkers : SendUuid(w)
  \/ \E w \in SendWorkers : SendAttachment(w)
  \/ \E w \in SendWorkers : SendCreate(w)
  \/ \E w \in SendWorkers : SendWrite(w)
  \/ \E w \in SendWorkers : SendLog(w)
  \/ \E w \in SendWorkers : SendFail(w)
  \/ \E w \in SendWorkers : SendReturn(w)
  \/ \E f \in FetchWorkers, t \in TokenInputs : FetchStart(f, t)
  \/ \E f \in FetchWorkers : FetchRead(f)
  \/ \E f \in FetchWorkers : FetchAttExists(f)
  \/ \E f \in FetchWorkers : FetchAttRead(f)
  \/ \E f \in FetchWorkers : FetchZipOpen(f)
  \/ \E f \in FetchWorkers : FetchZipMsgExists(f)
  \/ \E f \in FetchWorkers : FetchZipMsg(f)
  \/ \E f \in FetchWorkers : FetchZipAttExists(f)
  \/ \E f \in FetchWorkers : FetchZipAtt(f)
  \/ \E f \in FetchWorkers : FetchZipClose(f)
  \/ \E f \in FetchWorkers : FetchUnlinkMsgExists(f)
  \/ \E f \in FetchWorkers : FetchUnlinkMsg(f)
  \/ \E f \in FetchWorkers : FetchUnlinkAttExists(f)
  \/ \E f \in FetchWorkers : FetchUnlinkAtt(f)
  \/ \E f \in FetchWorkers : FetchRespond(f)
  \/ \E f \in FetchWorkers : FetchFail(f)
  \/ \E f \in FetchWorkers : FetchReturn(f)
  \/ \E ag \in Agents : \E nm \in DOMAIN inbox[ag] : DeleteInboxMessage(ag, nm)
  \/ \E ag \in Agents : \E stem \in DOMAIN done[ag] : DeleteDoneMessage(ag, stem)

Spec == Init /\ [][Next]_vars

(* ------------- one request at a time, over all small inputs ----------- *)
SeqsUpTo(S, n) == UNION {[1..m -> S] : m \in 0..n}

\* the characters of the names: a letter, a capital, a blank, a punctuation
\* mark, the hyphen and an accented letter
NameChars == {"a", "A", " ", "!", "-", "e'"}

Names == SeqsUpTo(NameChars, MaxName)

\* the lines of the bodies: text, text ending in a carriage return, a blank
\* line, the two marker lines, a `key: value` line and a `- <path>` line
BodyLines ==
  { Text("hi"), TextCR("hi"), Blank, HeaderMarker, FooterMarker,
    KV("from", <<"b">>, 0), Dash(<<"b">>, MaxIds, 1) }

Bodies == SeqsUpTo(BodyLines, MaxBody)

\* names of at most one character, for the longer recipient lists
ShortNames == SeqsUpTo(NameChars, 1)

\* a known sender and recipient with every list of at most MaxUploads uploaded
\* files, by the extension of their names
UploadInputs ==
  {Upload(<<"b">>, << <<"a">> >>, <<Text("hi")>>, exts) : exts \in SeqsUpTo(Exts, MaxUploads)}

\* every sender with every list of at most one short recipient, every single
\* recipient and every list of short recipients with a known sender, every
\* body and number of files with known names, every list of uploads, and
\* every short sender and list of at most one short recipient with a body of
\* white space
SendInputs ==
  UploadInputs \cup
  {Request(s, rs, <<Blank>>, 0) : s \in ShortNames, rs \in SeqsUpTo(ShortNames, 1)} \cup
  {Request(s, rs, <<Text("hi")>>, 0) : s \in Names, rs \in SeqsUpTo(ShortNames, 1)}
  \cup {Request(<<"a">>, <<r>>, <<Text("hi")>>, 0) : r \in Names}
  \cup {Request(<<"a">>, rs, <<Text("hi")>>, 0) : rs \in SeqsUpTo(ShortNames, MaxIds)}
  \cup {Request(<<"a">>, rs, m, n) :
          rs \in { << <<"a">> >>, << <<"a">>, <<"b">> >>, << <<"a">>, <<"a">> >> },
          m \in Bodies, n \in 0..MaxFiles}

\* one handler thread that has read its request; empty message directories
SendInit ==
  /\ inboxDirs = {}
  /\ doneDirs = {}
  /\ inbox = [a \in Agents |-> <<>>]
  /\ done = [a \in Agents |-> <<>>]
  /\ log = <<>>
  /\ now = 1
  /\ \E q \in SendInputs : snd = [w \in {"s1"} |-> [IdleSend EXCEPT !.pc = "recv", !.req = q]]
  /\ fch = [f \in {} |-> IdleFetch]
  /\ uuids = 1..MaxIds
  /\ created = <<>>
  /\ attWritten = {}
  /\ collision = FALSE
  /\ delivered = [i \in Ids |-> 0]
  /\ faults = 0
  /\ ui = NoSession
  /\ agent_ids = AgentIdsFile

SendNext ==
  \/ \E w \in SendWorkers : SendValidate(w)
  \/ \E w \in SendWorkers : SendUuid(w)
  \/ \E w \in SendWorkers : SendAttachment(w)
  \/ \E w \in SendWorkers : SendCreate(w)
  \/ \E w \in SendWorkers : SendWrite(w)
  \/ \E w \in SendWorkers : SendLog(w)
  \/ \E w \in SendWorkers : SendReturn(w)

SendSpec == SendInit /\ [][SendNext]_vars

(* ------------- one send and one fetch, over all small uploads --------- *)
\* a handler thread of app.py that has read its request and an idle thread of
\* fetch.py; empty message directories
RelayInit ==
  /\ inboxDirs = {}
  /\ doneDirs = {}
  /\ inbox = [a \in Agents |-> <<>>]
  /\ done = [a \in Agents |-> <<>>]
  /\ log = <<>>
  /\ now = 1
  /\ \E q \in UploadInputs : snd = [w \in {"s1"} |-> [IdleSend EXCEPT !.pc = "recv", !.req = q]]
  /\ fch = [f \in {"f1"} |-> IdleFetch]
  /\ uuids = 1..MaxIds
  /\ created = <<>>
  /\ attWritten = {}
  /\ collision = FALSE
  /\ delivered = [i \in Ids |-> 0]
  /\ faults = 0
  /\ ui = NoSession
  /\ agent_ids = AgentIdsFile

RelayNext ==
  \/ \E w \in SendWorkers : SendValidate(w)
  \/ \E w \in SendWorkers : SendUuid(w)
  \/ \E w \in SendWorkers : SendAttachment(w)
  \/ \E w \in SendWorkers : SendCreate(w)
  \/ \E w \in SendWorkers : SendWrite(w)
  \/ \E w \in SendWorkers : SendLog(w)
  \/ \E w \in SendWorkers : SendReturn(w)
  \/ \E f \in FetchWorkers, t \in TokenInputs : FetchStart(f, t)
  \/ \E f \in FetchWorkers : FetchRead(f)
  \/ \E f \in FetchWorkers : FetchAttExists(f)
  \/ \E f \in FetchWorkers : FetchAttRead(f)
  \/ \E f \in FetchWorkers : FetchZipOpen(f)
  \/ \E f \in FetchWorkers : FetchZipMsgExists(f)
  \/ \E f \in FetchWorkers : FetchZipMsg(f)
  \/ \E f \in FetchWorkers : FetchZipAttExists(f)
  \/ \E f \in FetchWorkers : FetchZipAtt(f)
  \/ \E f \in FetchWorkers : FetchZipClose(f)
  \/ \E f \in FetchWorkers : FetchUnlinkMsgExists(f)
  \/ \E f \in FetchWorkers : FetchUnlinkMsg(f)
  \/ \E f \in FetchWorkers : FetchUnlinkAttExists(f)
  \/ \E f \in FetchWorkers : FetchUnlinkAtt(f)
  \/ \E f \in FetchWorkers : FetchRespond(f)
  \/ \E f \in FetchWorkers : FetchReturn(f)

RelaySpec == RelayInit /\ [][RelayNext]_vars

(* ------------ one fetch at a time, over all small envelope files ------ *)
\* the lines of the files: the two marker lines, a blank line, text, the path
\* of a file of the agent's own inbox and the path of a file of another inbox
FileLines ==
  { HeaderMarker, FooterMarker, Blank, Text("hi"),
    Dash(<<"a">>, 1, 1), Dash(<<"b">>, MaxIds, 1) }

FileTexts == SeqsUpTo(FileLines, MaxLines)

\* one idle fetch thread; a's inbox holds an envelope file with any content and
\* one attachment file, b's inbox holds one attachment file
FetchInit ==
  /\ inboxDirs = Agents
  /\ doneDirs = {}
  /\ \E text \in FileTexts :
       inbox = [ag \in Agents |->
                  IF ag = <<"a">>
                  THEN [nm \in {MdName(1, 1), AttName(1, 1)} |->
                          IF nm.kind = "md" THEN text ELSE <<Bytes(1)>>]
                  ELSE [nm \in {AttName(MaxIds, 1)} |-> <<Bytes(1)>>]]
  /\ done = [a \in Agents |-> <<>>]
  /\ log = <<>>
  /\ now = 1
  /\ snd = [w \in {} |-> IdleSend]
  /\ fch = [f \in {"f1"} |-> IdleFetch]
  /\ uuids = {}
  /\ created = <<>>
  /\ attWritten = {}
  /\ collision = FALSE
  /\ delivered = [i \in Ids |-> 0]
  /\ faults = 0
  /\ ui = NoSession
  /\ agent_ids = AgentIdsFile

FetchNext ==
  \/ \E f \in FetchWorkers, t \in TokenInputs : FetchStart(f, t)
  \/ \E f \in FetchWorkers : FetchRead(f)
  \/ \E f \in FetchWorkers : FetchAttExists(f)
  \/ \E f \in FetchWorkers : FetchAttRead(f)
  \/ \E f \in FetchWorkers : FetchZipOpen(f)
  \/ \E f \in FetchWorkers : FetchZipMsgExists(f)
  \/ \E f \in FetchWorkers : FetchZipMsg(f)
  \/ \E f \in FetchWorkers : FetchZipAttExists(f)
  \/ \E f \in FetchWorkers : FetchZipAtt(f)
  \/ \E f \in FetchWorkers : FetchZipClose(f)
  \/ \E f \in FetchWorkers : FetchUnlinkMsgExists(f)
  \/ \E f \in FetchWorkers : FetchUnlinkMsg(f)
  \/ \E f \in FetchWorkers : FetchUnlinkAttExists(f)
  \/ \E f \in FetchWorkers : FetchUnlinkAtt(f)
  \/ \E f \in FetchWorkers : FetchRespond(f)
  \/ \E f \in FetchWorkers : FetchReturn(f)

FetchSpec == FetchInit /\ [][FetchNext]_vars


(* ------------------- dashboard.py: the admin session ------------------ *)
ADMIN_USER == "admin"

\* os.environ.get("OPENACK_ADMIN_PASS", "password") with the variable unset
expected_password == "password"

QueryInputs == {"", "authenticated=true"}
UserInputs == {"admin", "guest"}
PasswordInputs == {"", "password"}

FormInputs ==
  {Form(q, u, pw, sub) : q \in QueryInputs, u \in UserInputs, pw \in PasswordInputs,
                         sub \in BOOLEAN}

CredentialsOrQuery(form) ==
  (form.username = ADMIN_USER /\ form.password = expected_password) \/ form.query # ""

\* require_login, line 240
CredentialsOk(form) == form.username = ADMIN_USER /\ form.password = expected_password

(* --------------------- dashboard.py: scan_messages -------------------- *)
\* the positions of the `key:` lines parse_message_text takes out of the body
FieldLines(block, k) == {i \in 1..Len(block) : block[i].t = "kv" /\ block[i].k = k}

IsField(l) == l.t = "kv" /\ l.k \in {"from", "to", "sent_at"}

\* parse_message_text: the text after the first header marker is cut at the
\* first footer marker; every from:, to: and sent_at: line before the cut
\* sets its field (the last one stays), the other lines are the body, and
\* every line after the cut that starts with `-` names an attachment
parse_message_text(text) ==
  LET header_block == IF Positions(text, HeaderMarker) = {} THEN text
                      ELSE SubSeq(text, Min(Positions(text, HeaderMarker)) + 1, Len(text))
      cut == Positions(header_block, FooterMarker)
      body_block == IF cut = {} THEN header_block ELSE SubSeq(header_block, 1, Min(cut) - 1)
      footer_block == IF cut = {} THEN <<>>
                      ELSE SubSeq(header_block, Min(cut) + 1, Len(header_block))
      dashes == SelectSeq(footer_block, LAMBDA l : l.t = "dash")
  IN [ sent_at |-> IF FieldLines(body_block, "sent_at") = {} THEN 0
                   ELSE body_block[Max(FieldLines(body_block, "sent_at"))].ts,
       sender |-> IF FieldLines(body_block, "from") = {} THEN <<>>
                  ELSE body_block[Max(FieldLines(body_block, "from"))].v,
       recipient |-> IF FieldLines(body_block, "to") = {} THEN <<>>
                     ELSE body_block[Max(FieldLines(body_block, "to"))].v,
       body |-> StripLines(SelectSeq(body_block, LAMBDA l : ~IsField(l))),
       attachments |-> [i \in 1..Len(dashes) |->
                          [ag |-> dashes[i].ag,
                           nm |-> attachment_name(dashes[i].id, dashes[i].n, StripPath(dashes[i].k))]] ]

\* sorted(..., reverse=True) of file names
RECURSIVE sorted_reverse(_)
sorted_reverse(S) ==
  IF S = {} THEN <<>>
  ELSE LET m == CHOOSE x \in S : \A y \in S \ {x} : NameLess(y, x)
       IN <<m>> \o sorted_reverse(S \ {m})

\* MessageRecord; message_id is f"inbox::{msg_path}" or
\* f"done::{zip_path}::{member}", location is f"{person}/inbox" or "/done"
MessageRecord(loc, ag, nm, member, is_new, details) ==
  [message_id |-> [loc |-> loc, ag |-> ag, nm |-> nm, member |-> member],
   location |-> [ag |-> ag, dir |-> loc], is_new |-> is_new,
   sent_at |-> details.sent_at, sender |-> details.sender, recipient |-> details.recipient,
   attachments_count |-> Len(details.attachments)]

\* what one pass of the loops appends to records and stores in detail_cache
ScanEntry(loc, ag, nm, member, is_new, details) ==
  [record |-> MessageRecord(loc, ag, nm, member, is_new, details), details |-> details]

\* lines 159-163: what the envelope files of ag's inbox add to the scan
InboxEntries(ag) ==
  IF ag \notin inboxDirs THEN <<>>
  ELSE LET names == sorted_reverse(GlobMd(ag))
       IN [i \in 1..Len(names) |->
             ScanEntry("inbox", ag, names[i], names[i], TRUE,
                       parse_message_text(read_text(inbox[ag][names[i]])))]

\* zipfile.ZipFile(zip_path, "r") raises BadZipFile: the file has no directory
Unreadable(z) == ~z.closed \/ z.corrupt

\* line 169: the members whose name ends in .md
md_files(z) == Sorted({m \in DOMAIN z.members : m.kind = "md"})

\* lines 167-175: what the zips of ag's done directory that hold a .md member
\* add to the scan
DoneEntries(ag) ==
  IF ag \notin doneDirs THEN <<>>
  ELSE LET stems == sorted_reverse({st \in DOMAIN done[ag] : md_files(done[ag][st]) # <<>>})
       IN [i \in 1..Len(stems) |->
             ScanEntry("done", ag, stems[i], md_files(done[ag][stems[i]])[1], FALSE,
                       parse_message_text(read_text(
                         done[ag][stems[i]].members[md_files(done[ag][stems[i]])[1]])))]

\* line 156: sorted(path for path in MESSAGES_ROOT.iterdir() if path.is_dir())
PersonDirs == << <<"a">>, <<"b">> >>

RECURSIVE ScanFrom(_)
ScanFrom(k) ==
  IF k > Len(PersonDirs) THEN <<>>
  ELSE InboxEntries(PersonDirs[k]) \o DoneEntries(PersonDirs[k]) \o ScanFrom(k + 1)

RECURSIVE SortAscending(_)
SortAscending(records) ==
  IF records = <<>> THEN <<>>
  ELSE LET m == Min({i \in 1..Len(records) :
                      \A j \in 1..Len(records) : records[i].sent_at <= records[j].sent_at})
       IN <<records[m]>>
          \o SortAscending([i \in 1..(Len(records) - 1) |->
                              IF i < m THEN records[i] ELSE records[i + 1]])

\* line 177: records.sort(key=lambda row: row.sent_at, reverse=True), a stable
\* sort: records with equal sent_at keep the order of the scan
RECURSIVE SortDescending(_)
SortDescending(records) ==
  IF records = <<>> THEN <<>>
  ELSE LET m == Min({i \in 1..Len(records) :
                      \A j \in 1..Len(records) : records[i].sent_at >= records[j].sent_at})
       IN <<records[m]>>
          \o SortDescending([i \in 1..(Len(records) - 1) |->
                               IF i < m THEN records[i] ELSE records[i + 1]])

\* scan_messages raises: a zip of a done directory cannot be read
ScanError == \E ag \in doneDirs : \E st \in DOMAIN done[ag] : Unreadable(done[ag][st])

\* scan_messages: the records it returns
scan_records ==
  LET entries == ScanFrom(1)
  IN SortDescending([i \in 1..Len(entries) |-> entries[i].record])

\* scan_messages: the detail_cache it returns, message_id -> MessageDetails
scan_details ==
  LET entries == ScanFrom(1)
  IN [id \in {entries[i].record.message_id : i \in 1..Len(entries)} |->
        entries[Max({i \in 1..Len(entries) : entries[i].record.message_id = id})].details]

(* ----------- dashboard.py: resolve_archived_attachment_name ----------- *)
\* Path(p).name
PathName(p) == Path(FALSE, <<p.parts[Len(p.parts)]>>)

\* Path(p).parent
PathParent(p) == Path(p.abs, SubSeq(p.parts, 1, Len(p.parts) - 1))

\* the components of p that a "/messages/" of its string ends before
AfterMessages(p) ==
  {i \in 2..Len(p.parts) : p.parts[i - 1] = "messages" /\ (i > 2 \/ p.abs)}

\* lines 129-140: the names tried, in the order they are tried
candidates(attachment, message_member) ==
  <<attachment, Path(FALSE, attachment.parts)>>
  \o (IF AfterMessages(attachment) # {}
      THEN <<Path(FALSE, SubSeq(attachment.parts, Min(AfterMessages(attachment)),
                                Len(attachment.parts)))>>
      ELSE <<>>)
  \o <<PathName(attachment)>>
  \o (IF PathParent(message_member) # Path(FALSE, <<>>)
      THEN <<Path(PathParent(message_member).abs,
                  PathParent(message_member).parts \o PathName(attachment).parts)>>
      ELSE <<>>)

\* the first candidate that is a member of the archive, in a one-element
\* sequence; the empty sequence is None
resolve_archived_attachment_name(archive_names, attachment, message_member) ==
  LET tried == candidates(attachment, message_member)
      found == {i \in 1..Len(tried) : tried[i] \in archive_names}
  IN IF found = {} THEN <<>> ELSE <<tried[Min(found)]>>

\* the members an opened archive can list, the attachment paths a footer can
\* name and the names the envelope can have in the archive
ArchiveNames ==
  { Path(FALSE, <<"abc.txt">>), Path(FALSE, <<"archive", "abc.txt">>),
    Path(FALSE, <<"bob", "inbox", "abc.txt">>),
    Path(FALSE, <<"messages", "bob", "inbox", "abc.txt">>),
    Path(TRUE, <<"messages", "bob", "inbox", "abc.txt">>) }

AttachmentInputs == { Path(TRUE, <<"messages", "bob", "inbox", "abc.txt">>) }

MemberInputs == { Path(FALSE, <<"m.md">>), Path(FALSE, <<"archive", "m.md">>) }

(* --------------------- dashboard.py: main, one run -------------------- *)
\* main when require_login returns: scan_messages, then the tabs are rendered
Render(session) ==
  IF ScanError
  THEN [session EXCEPT !.page = "error", !.error = "BadZipFile",
                       !.records = <<>>, !.details = <<>>]
  ELSE [session EXCEPT !.page = "dashboard", !.error = "",
                       !.records = scan_records, !.details = scan_details]

\* one run of the script.  require_login returns at once in an authenticated
\* session; otherwise it renders the form and stops the run, unless the form
\* was submitted with the credentials: then it sets authenticated and
\* st.rerun() starts the script again, which renders the dashboard
DashRun(form) ==
  /\ ui' = IF ui.authenticated THEN Render(ui)
           ELSE IF form.submitted /\ CredentialsOk(form)
                THEN Render([ui EXCEPT !.authenticated = TRUE, !.form = form])
                ELSE [ui EXCEPT !.page = "login", !.form = form,
                                !.error = IF form.submitted THEN "Invalid credentials" ELSE ""]
  /\ UNCHANGED << fsVars, histVars, now, uuids, snd, fch, faults, agent_ids >>

\* inbox_tab, lines 438-446: the viewer of an archived message looks an
\* attachment of the footer up among the members of the zip
DashOpen(names, attachment, member) ==
  /\ ui.authenticated /\ ui.page = "dashboard"
  /\ ui' = [ui EXCEPT !.opened = [names |-> names, attachment |-> attachment,
                                  member |-> member],
                      !.resolved = resolve_archived_attachment_name(names, attachment, member)]
  /\ UNCHANGED << fsVars, histVars, now, uuids, snd, fch, faults, agent_ids >>

\* the envelope a send of sender to ag at time ts leaves behind
Stored(sender, ag, ts, id, exts) ==
  EnvelopeText(sender, ag, <<Text("hi")>>, ts, id, exts)

\* an inbox: no file, one envelope, two envelopes (the later one with an
\* attachment), or a file without the sent_at line
InboxInputs(ag, sender) ==
  { <<>>,
    [nm \in {MdName(1, 1)} |-> Stored(sender, ag, 1, 1, <<>>)],
    [nm \in {MdName(1, 1), MdName(2, 2), AttName(2, 1)} |->
       IF nm.kind = "att" THEN <<Bytes(1)>>
       ELSE Stored(sender, ag, nm.ts, nm.id, IF nm.id = 2 THEN <<"">> ELSE <<>>)],
    [nm \in {MdName(2, 1)} |-> <<HeaderMarker, Text("hi"), FooterMarker>>] }

\* a zip fetch.py finished, one it never closed, and one without an envelope
Archived(ag, sender, ts, id) ==
  [members |-> [nm \in {MdName(ts, id)} |-> Stored(sender, ag, ts, id, <<>>)],
   closed |-> TRUE, corrupt |-> FALSE, owner |-> "f1"]

OnlyAttachment(id) ==
  [members |-> [nm \in {AttName(id, 1)} |-> <<Bytes(1)>>],
   closed |-> TRUE, corrupt |-> FALSE, owner |-> "f1"]

\* a done directory: no zip, one archived message, two archived messages and
\* a zip without an envelope, or a zip that cannot be read
DoneInputs(ag, sender) ==
  { <<>>,
    [st \in {MdName(2, 1)} |-> Archived(ag, sender, 2, 1)],
    [st \in {MdName(1, 2), MdName(2, 1), MdName(2, 2)} |->
       IF st.id = 2 /\ st.ts = 2 THEN OnlyAttachment(2) ELSE Archived(ag, sender, st.ts, st.id)],
    [st \in {MdName(1, 1)} |-> [Archived(ag, sender, 1, 1) EXCEPT !.closed = FALSE]] }

\* a browser that has not opened the dashboard, and the directories as sends
\* and fetches can have left them
DashInit ==
  /\ \E ia \in InboxInputs(<<"a">>, <<"b">>), ib \in InboxInputs(<<"b">>, <<"a">>) :
       /\ ib = <<>> \/ DOMAIN ib = {MdName(2, 1)}
       /\ inbox = [ag \in Agents |-> IF ag = <<"a">> THEN ia ELSE ib]
  /\ \E da \in DoneInputs(<<"a">>, <<"b">>), db \in DoneInputs(<<"b">>, <<"a">>) :
       /\ db = <<>>
       /\ done = [ag \in Agents |-> IF ag = <<"a">> THEN da ELSE db]
  /\ inboxDirs = {ag \in Agents : inbox[ag] # <<>>}
  /\ doneDirs = {ag \in Agents : done[ag] # <<>>}
  /\ log = <<>>
  /\ now = MaxTime
  /\ snd = [w \in {} |-> IdleSend]
  /\ fch = [f \in {} |-> IdleFetch]
  /\ uuids = {}
  /\ created = <<>>
  /\ attWritten = {}
  /\ collision = FALSE
  /\ delivered = [i \in Ids |-> 0]
  /\ faults = 0
  /\ ui = NoSession
  /\ agent_ids = AgentIdsFile

DashNext ==
  \/ \E form \in FormInputs : DashRun(form)
  \/ \E names \in SUBSET ArchiveNames, attachment \in AttachmentInputs,
        member \in MemberInputs : DashOpen(names, attachment, member)

DashSpec == DashInit /\ [][DashNext]_vars

(* ------- fetch calls over an inbox that holds two envelope files ------ *)
\* what the envelope file of message id can hold: what a send without and with
\* an uploaded file stored, or text without the marker lines
DrainTexts(id) ==
  { Stored(<<"b">>, <<"a">>, id, id, <<>>), Stored(<<"b">>, <<"a">>, id, id, <<"">>),
    <<Text("hi")>> }

\* one idle fetch thread; a's inbox holds the envelope files of two messages,
\* the earlier one first in the scan, and the attachment files their footers name
DrainInit ==
  /\ inboxDirs = Agents
  /\ doneDirs = {}
  /\ \E texts \in [Ids -> UNION {DrainTexts(i) : i \in Ids}] :
       /\ \A i \in Ids : texts[i] \in DrainTexts(i)
       /\ inbox = [ag \in Agents |->
                     IF ag = <<"a">>
                     THEN [nm \in {MdName(i, i) : i \in Ids}
                                  \cup {AttName(i, 1) : i \in {x \in Ids :
                                         /\ ~Malformed(texts[x])
                                         /\ attachment_paths(texts[x]) # <<>>}} |->
                             IF nm.kind = "md" THEN texts[nm.id] ELSE <<Bytes(1)>>]
                     ELSE <<>>]
  /\ done = [a \in Agents |-> <<>>]
  /\ log = <<>>
  /\ now = MaxTime
  /\ snd = [w \in {} |-> IdleSend]
  /\ fch = [f \in {"f1"} |-> IdleFetch]
  /\ uuids = {}
  /\ created = <<>>
  /\ attWritten = {}
  /\ collision = FALSE
  /\ delivered = [i \in Ids |-> 0]
  /\ faults = 0
  /\ ui = NoSession
  /\ agent_ids = AgentIdsFile

DrainNext ==
  \/ \E f \in FetchWorkers, t \in TokenInputs : FetchStart(f, t)
  \/ \E f \in FetchWorkers : FetchRead(f)
  \/ \E f \in FetchWorkers : FetchAttExists(f)
  \/ \E f \in FetchWorkers : FetchAttRead(f)
  \/ \E f \in FetchWorkers : FetchZipOpen(f)
  \/ \E f \in FetchWorkers : FetchZipMsgExists(f)
  \/ \E f \in FetchWorkers : FetchZipMsg(f)
  \/ \E f \in FetchWorkers : FetchZipAttExists(f)
  \/ \E f \in FetchWorkers : FetchZipAtt(f)
  \/ \E f \in FetchWorkers : FetchZipClose(f)
  \/ \E f \in FetchWorkers : FetchUnlinkMsgExists(f)
  \/ \E f \in FetchWorkers : FetchUnlinkMsg(f)
  \/ \E f \in FetchWorkers : FetchUnlinkAttExists(f)
  \/ \E f \in FetchWorkers : FetchUnlinkAtt(f)
  \/ \E f \in FetchWorkers : FetchRespond(f)
  \/ \E f \in FetchWorkers : FetchFail(f)
  \/ \E f \in FetchWorkers : FetchReturn(f)

DrainSpec == DrainInit /\ [][DrainNext]_vars

(* ------------- fetches over the contents of agent_ids.yml ------------- *)
\* the names an entry of the file can carry: two of the directory, one that
\* is not in it and one sanitize_agent_name raises on
MapNames == {<<"a">>, <<"b">>, <<"g">>, <<"!">>}

\* the id mappings: t1 and t3 with any of the names, with or without an entry
\* whose key is white space
MapFiles ==
  UNION {[keys -> MapNames] : keys \in {{"t1", "t3"}, {"t1", "t3", " "}}}

\* both inboxes hold an envelope and its attachment written by enqueue; one
\* idle fetch thread; any of the id mappings
MapInit ==
  /\ inboxDirs = Agents
  /\ doneDirs = {}
  /\ inbox = [ag \in Agents |->
               IF ag = <<"a">>
               THEN [nm \in {MdName(1, 1), AttName(1, 1)} |->
                       IF nm.kind = "md" THEN Stored(<<"b">>, <<"a">>, 1, 1, <<"">>)
                       ELSE <<Bytes(1)>>]
               ELSE [nm \in {MdName(1, 2), AttName(2, 1)} |->
                       IF nm.kind = "md" THEN Stored(<<"a">>, <<"b">>, 1, 2, <<"">>)
                       ELSE <<Bytes(1)>>]]
  /\ done = [a \in Agents |-> <<>>]
  /\ log = << LogLine(<<"b">>, <<"a">>, 1), LogLine(<<"a">>, <<"b">>, 1) >>
  /\ now = 1
  /\ snd = [w \in {} |-> IdleSend]
  /\ fch = [f \in {"f1"} |-> IdleFetch]
  /\ uuids = {}
  /\ created = <<>>
  /\ attWritten = {}
  /\ collision = FALSE
  /\ delivered = [i \in Ids |-> 0]
  /\ faults = 0
  /\ ui = NoSession
  /\ agent_ids \in MapFiles

MapSpec == MapInit /\ [][FetchNext]_vars

(* ------- a send to a and a fetch of a, next to b's filled inbox -------- *)
\* the requests from b to a: text, with or without an uploaded file, or a
\* body that holds a footer marker line and the path of a file of b's inbox
CrossInputs ==
  {Request(<<"b">>, << <<"a">> >>, m, n) :
     m \in {<<Text("hi")>>, <<FooterMarker, Dash(<<"b">>, 1, 1)>>}, n \in 0..MaxFiles}

\* b's inbox holds the envelope and the attachment of an earlier send from a;
\* a handler thread of app.py has read a request for a, a thread of fetch.py
\* is idle
CrossInit ==
  /\ inboxDirs = {<<"b">>}
  /\ doneDirs = {}
  /\ inbox = [ag \in Agents |->
               IF ag = <<"b">>
               THEN [nm \in {MdName(1, 1), AttName(1, 1)} |->
                       IF nm.kind = "md" THEN Stored(<<"a">>, <<"b">>, 1, 1, <<"">>)
                       ELSE <<Bytes(1)>>]
               ELSE <<>>]
  /\ done = [a \in Agents |-> <<>>]
  /\ log = << LogLine(<<"a">>, <<"b">>, 1) >>
  /\ now = 1
  /\ \E q \in CrossInputs : snd = [w \in {"s1"} |-> [IdleSend EXCEPT !.pc = "recv", !.req = q]]
  /\ fch = [f \in {"f1"} |-> IdleFetch]
  /\ uuids = Ids \ {1}
  /\ created = << [ag |-> <<"b">>, nm |-> MdName(1, 1)] >>
  /\ attWritten = { [ag |-> <<"b">>, nm |-> AttName(1, 1)] }
  /\ collision = FALSE
  /\ delivered = [i \in Ids |-> 0]
  /\ faults = 0
  /\ ui = NoSession
  /\ agent_ids = AgentIdsFile

CrossSpec == CrossInit /\ [][RelayNext]_vars

(* ---------- sends to one inbox while fetch calls drain it --------------- *)
\* the requests of the sender: a message from b to a, without or with a file
LiveRequests == {Request(<<"b">>, << <<"a">> >>, <<Text("hi")>>, n) : n \in 0..MaxFiles}

\* one server thread of app.py and one of fetch.py, both idle, no mailbox yet
LiveInit ==
  /\ inboxDirs = {}
  /\ doneDirs = {}
  /\ inbox = [a \in Agents |-> <<>>]
  /\ done = [a \in Agents |-> <<>>]
  /\ log = <<>>
  /\ now = 1
  /\ snd = [w \in {"s1"} |-> IdleSend]
  /\ fch = [f \in {"f1"} |-> IdleFetch]
  /\ uuids = Ids
  /\ created = <<>>
  /\ attWritten = {}
  /\ collision = FALSE
  /\ delivered = [i \in Ids |-> 0]
  /\ faults = 0
  /\ ui = NoSession
  /\ agent_ids = AgentIdsFile

\* a step of a send call that has started
SendStep ==
  \E w \in SendWorkers :
    \/ SendUuid(w)
    \/ SendAttachment(w)
    \/ SendCreate(w)
    \/ SendWrite(w)
    \/ SendLog(w)
    \/ SendReturn(w)

\* a step of a fetch call that has started
FetchStep ==
  \E f \in FetchWorkers :
    \/ FetchRead(f)
    \/ FetchAttExists(f)
    \/ FetchAttRead(f)
    \/ FetchZipOpen(f)
    \/ FetchZipMsgExists(f)
    \/ FetchZipMsg(f)
    \/ FetchZipAttExists(f)
    \/ FetchZipAtt(f)
    \/ FetchZipClose(f)
    \/ FetchUnlinkMsgExists(f)
    \/ FetchUnlinkMsg(f)
    \/ FetchUnlinkAttExists(f)
    \/ FetchUnlinkAtt(f)
    \/ FetchRespond(f)
    \/ FetchReturn(f)

\* a fetch call with a token of agent a arrives
FetchOfA == \E f \in FetchWorkers : FetchStart(f, "t1")

LiveNext ==
  \/ \E w \in SendWorkers, q \in LiveRequests, t \in 1..MaxTime : SendStart(w, q, t)
  \/ SendStep
  \/ \E f \in FetchWorkers, t \in TokenInputs : FetchStart(f, t)
  \/ FetchStep

\* the threads of both servers keep running, no filesystem call fails, and
\* fetch calls with a token of a keep arriving
LiveSpec ==
  /\ LiveInit /\ [][LiveNext]_vars
  /\ WF_vars(SendStep)
  /\ WF_vars(FetchStep)
  /\ SF_vars(FetchOfA)

(* ------------------------------ properties ---------------------------- *)
Delivering == {"uuid", "att", "create", "write", "log"}
FetchActive == {"read", "att_chk", "att_read", "append", "unl_msg_chk", "unl_msg",
                "unl_att_chk", "unl_att", "ret"} \cup ZipPcs

\* position of an envelope path in the creation history (0 when absent)
CreatedAt(ag, nm) ==
  IF \E n \in 1..Len(created) : created[n] = [ag |-> ag, nm |-> nm]
  THEN CHOOSE n \in 1..Len(created) : created[n] = [ag |-> ag, nm |-> nm]
  ELSE 0

\* the attachment files write_message wrote for envelope id in ag's inbox
AttachmentsOf(ag, id) == {p.nm : p \in {q \in attWritten : q.ag = ag /\ q.nm.id = id}}

\* done/<stem>.zip exists and holds the envelope file
InDone(ag, nm) == nm \in DOMAIN done[ag] /\ nm \in DOMAIN done[ag][nm].members

\* the text of a finished write_message ends with its footer line
Complete(lines) ==
  /\ lines # <<>>
  /\ \/ lines[Len(lines)].t = "dash"
     \/ lines[Len(lines)].t = "kv" /\ lines[Len(lines)].k = "reply_url"

\* C1: no envelope is returned by two fetch calls (the fetches of one mailbox
\* exclude each other, so none is delivered twice).
C1_NoDuplicateDelivery == \A i \in Ids : delivered[i] <= 1

\* C2: when a fetch call has returned successfully, every envelope it returned
\* is gone from the inbox with all its attachment files, and done/ holds a zip
\* named after the envelope file whose members are exactly the envelope file
\* and its attachments.
C2_ReturnedIsArchived ==
  \A f \in FetchWorkers : fch[f].pc = "ok" =>
    \A n \in 1..Len(fch[f].msgs) :
      LET ag == fch[f].agent
          nm == fch[f].msgs[n].file
      IN /\ nm \notin DOMAIN inbox[ag]
         /\ \A a \in AttachmentsOf(ag, nm.id) : a \notin DOMAIN inbox[ag]
         /\ nm \in DOMAIN done[ag]
         /\ done[ag][nm].closed /\ ~done[ag][nm].corrupt
         /\ DOMAIN done[ag][nm].members = {nm} \cup AttachmentsOf(ag, nm.id)

\* C3: whenever no fetch is running for an agent (also after one that failed
\* part-way through archiving), no envelope of that agent is both in the inbox
\* and, as a zip, in done.
C3_OneLocation ==
  \A ag \in Agents :
    (\A f \in FetchWorkers : ~(fch[f].pc \in FetchActive /\ fch[f].agent = ag)) =>
      \A nm \in GlobMd(ag) : ~InDone(ag, nm)

\* C4 as stated: the returned sequence is in non-decreasing sent_at and, among
\* equal sent_at, in the order the envelopes were created.
C4_CreationOrder ==
  \A f \in FetchWorkers :
    \A m, n \in 1..Len(fch[f].msgs) : m < n =>
      /\ fch[f].msgs[m].sent_at <= fch[f].msgs[n].sent_at
      /\ fch[f].msgs[m].sent_at = fch[f].msgs[n].sent_at =>
           CreatedAt(fch[f].agent, fch[f].msgs[m].file) < CreatedAt(fch[f].agent, fch[f].msgs[n].file)

\* C4 amended: the returned sequence is in non-decreasing sent_at and, among
\* equal sent_at, in ascending order of the envelopes' unique ids (file-name order).
C4_FileNameOrder ==
  \A f \in FetchWorkers :
    \A m, n \in 1..Len(fch[f].msgs) : m < n =>
      /\ fch[f].msgs[m].sent_at <= fch[f].msgs[n].sent_at
      /\ fch[f].msgs[m].sent_at = fch[f].msgs[n].sent_at =>
           fch[f].msgs[m].file.id < fch[f].msgs[n].file.id

C4_Witness ==
  \E f \in FetchWorkers :
    /\ fch[f].pc = "ok"
    /\ Len(fch[f].msgs) = 2
    /\ fch[f].msgs[1].sent_at = fch[f].msgs[2].sent_at
    /\ CreatedAt(fch[f].agent, fch[f].msgs[1].file) > CreatedAt(fch[f].agent, fch[f].msgs[2].file)

\* C5: concurrent enqueues never write a path another writer wrote: every
\* write_bytes and write_text opens a new path, two deliveries in progress hold
\* different ids, and with no fetch and no deletion every file written is in
\* its inbox.
C5_WritersNeverCollide ==
  /\ ~collision
  /\ \A n, m \in 1..Len(created) : n # m => created[n] # created[m]
  /\ \A w, v \in SendWorkers :
       (w # v /\ snd[w].pc \in {"att", "create", "write", "log"}
              /\ snd[v].pc \in {"att", "create", "write", "log"}) => snd[w].uuid # snd[v].uuid
  /\ (FetchWorkers = {} /\ faults = 0) =>
       /\ \A n \in 1..Len(created) : created[n].nm \in DOMAIN inbox[created[n].ag]
       /\ \A p \in attWritten : p.nm \in DOMAIN inbox[p.ag]

C5_Witness ==
  /\ \A w \in {"s1", "s2"} :
       /\ w \in SendWorkers
       /\ snd[w].pc = "write"
       /\ snd[w].nfiles > 0
       /\ Recipient(w) = <<"a">>
  /\ Cardinality({nm \in DOMAIN inbox[<<"a">>] : nm.kind = "att"}) = 2 * MaxFiles

\* C6: an envelope file a fetch has listed and not yet read is completely
\* written and every attachment its footer names exists with its content.
C6_ListedIsComplete ==
  \A f \in FetchWorkers : fch[f].pc = "read" =>
    \A n \in fch[f].i..Len(fch[f].list) :
      LET ag == fch[f].agent
          nm == fch[f].list[n]
      IN nm \in DOMAIN inbox[ag] =>
           /\ Complete(inbox[ag][nm])
           /\ \A k \in 1..Len(attachment_paths(inbox[ag][nm])) :
                /\ Exists(attachment_paths(inbox[ag][nm])[k])
                /\ inbox[ag][attachment_paths(inbox[ag][nm])[k].nm] # <<>>

\* the request a send worker carries passed the five checks of handle_send_message
Accepted(r) ==
  /\ r.pc \in Delivering
  /\ SanitizeOk(r.sender) /\ r.sender \in load_valid_people
  /\ r.recips # <<>>
  /\ \A i \in 1..Len(r.recips) : SanitizeOk(r.recips[i]) /\ r.recips[i] \in load_valid_people
  /\ StripLines(r.message) # <<>>

\* C7: a send request that fails a validation check (invalid name, unknown
\* sender, no recipient, unknown recipient, empty body) changes nothing on disk:
\* every step of a send worker that creates a directory, writes a file or
\* appends a log line belongs to a request that passed all five checks.
C7_RejectedWritesNothing ==
  [][\A w \in DOMAIN snd :
       (snd'[w] # snd[w] /\ ~Accepted(snd[w])) => UNCHANGED fsVars]_vars

C7_Witness ==
  \E w \in SendWorkers :
    /\ snd[w].pc = "rejected" /\ snd[w].err = "EmptyBody"
    /\ inboxDirs = {} /\ log = <<>>

\* C8: when a filesystem call of a delivery raises, the call ends in the error
\* state (500) and the step removes or changes no file, no zip and no log line:
\* the deliveries already made to earlier recipients stay as they are.
C8_NoRollback ==
  [][\A w \in DOMAIN snd :
       (snd[w].pc \in Delivering /\ snd'[w] # snd[w] /\ faults' # faults) =>
          /\ snd'[w].pc = "error"
          /\ log' = log /\ done' = done /\ inboxDirs' = inboxDirs
          /\ \A ag \in Agents : \A nm \in DOMAIN inbox[ag] :
               nm \in DOMAIN inbox'[ag] /\ inbox'[ag][nm] = inbox[ag][nm]]_vars

C8_Witness ==
  \E w \in SendWorkers :
    /\ snd[w].pc = "error" /\ snd[w].idx = 2
    /\ Len(log) = 1 /\ log[1].to = <<"a">>
    /\ \E nm \in GlobMd(<<"a">>) : Complete(inbox[<<"a">>][nm])

\* C9: a fetch that met a malformed envelope went on with the scan: every
\* well-formed envelope listed after the bad one was returned and archived.
C9_ScanContinues ==
  \A f \in FetchWorkers :
    (fch[f].pc = "rejected" /\ fch[f].err = "MalformedEnvelope") =>
      \A n \in (fch[f].i + 1)..Len(fch[f].list) :
        LET ag == fch[f].agent
            nm == fch[f].list[n]
        IN (nm \in DOMAIN inbox[ag] /\ ~Malformed(inbox[ag][nm])) =>
             /\ \E m \in 1..Len(fch[f].msgs) : fch[f].msgs[m].file = nm
             /\ InDone(ag, nm)

\* C10: an attachment file is in an inbox only together with its envelope file.
C10_AttachmentWithEnvelope ==
  \A ag \in Agents : \A nm \in DOMAIN inbox[ag] :
    nm.kind = "att" => \E md \in GlobMd(ag) : md.id = nm.id

\* C11: round trip.  Once write_message has written an envelope file, decoding
\* the file gives back the sender, the recipient, sent_at and the trimmed body
\* of the request and, in order, the storage names of its attachments.
C11_RoundTrip ==
  \A w \in SendWorkers : snd[w].pc = "log" =>
    LET r == Recipient(w)
        lines == read_text(inbox[r][MessageFile(w)])
    IN /\ ~Malformed(lines)
       /\ ParseMessage(lines, <<>>) =
            [from |-> snd[w].sender, to |-> r, sent_at |-> snd[w].sent_at,
             message |-> StripLines(snd[w].message)]
       /\ attachment_paths(lines) =
            [i \in 1..snd[w].nfiles |->
               [ag |-> r, nm |-> attachment_name(snd[w].uuid, i, snd[w].exts[i])]]

\* the fetch worker has just decoded the envelope file it is at
Decoded(f) ==
  /\ fch[f].pc \in {"att_chk", "append"} /\ fch[f].j = 1 /\ fch[f].atts = <<>>
  /\ CurFile(f) \in DOMAIN inbox[fch[f].agent]

\* the first header marker line, the last and the first footer marker line
\* after it, and the first blank line after the header marker
FirstHeaderLine(lines) == Min(Positions(lines, HeaderMarker))
LastFooterLine(lines) == Max(Positions(lines, FooterMarker))
FirstFooterLine(lines) ==
  Min({i \in Positions(lines, FooterMarker) : i > FirstHeaderLine(lines)})
HeaderBlankLines(lines, footer) ==
  {i \in (FirstHeaderLine(lines) + 1)..(footer - 1) : lines[i] = Blank}

\* the paths of the `- <path>` lines after line `from`, in order
DashPathsAfter(lines, from) ==
  LET idx == {i \in (from + 1)..Len(lines) : lines[i].t = "dash"}
      nth(k) == CHOOSE i \in idx : Cardinality({j \in idx : j < i}) = k - 1
  IN [k \in 1..Cardinality(idx) |->
        [ag |-> lines[nth(k)].ag,
         nm |-> attachment_name(lines[nth(k)].id, lines[nth(k)].n, StripPath(lines[nth(k)].k))]]

\* C12: the decoder takes the last footer marker line of the file: the body is
\* the trimmed text between the header's blank line and that last marker,
\* earlier marker lines and `- <path>` lines included, and the attachments are
\* the `- <path>` lines after the last marker and no others.
C12_LastFooter ==
  \A f \in FetchWorkers : Decoded(f) =>
    LET lines == read_text(inbox[fch[f].agent][CurFile(f)])
        last == LastFooterLine(lines)
    IN /\ HeaderBlankLines(lines, last) # {} =>
            fch[f].cur.message =
              StripLines(SubSeq(lines, Min(HeaderBlankLines(lines, last)) + 1, last - 1))
       /\ fch[f].paths = DashPathsAfter(lines, last)

C12_Witness ==
  \E f \in FetchWorkers :
    /\ Decoded(f)
    /\ \E i \in 1..Len(fch[f].cur.message) : fch[f].cur.message[i] = FooterMarker
    /\ \E i \in 1..Len(fch[f].cur.message) : fch[f].cur.message[i].t = "dash"
    /\ fch[f].paths = <<>>

\* C13: decoding stops body capture at the first footer marker line after the
\* header: the body is the trimmed text between the header's blank line and
\* that first marker.
C13_FirstFooter ==
  \A f \in FetchWorkers : Decoded(f) =>
    LET lines == read_text(inbox[fch[f].agent][CurFile(f)]) IN
      (/\ \E i \in Positions(lines, FooterMarker) : i > FirstHeaderLine(lines)
       /\ HeaderBlankLines(lines, FirstFooterLine(lines)) # {}) =>
        fch[f].cur.message =
          StripLines(SubSeq(lines, Min(HeaderBlankLines(lines, FirstFooterLine(lines))) + 1,
                            FirstFooterLine(lines) - 1))

\* C14: whatever paths an envelope file names, a fetch for an agent reads and
\* returns only files of that agent's inbox and changes no other inbox.
C14_OnlyOwnInbox ==
  [][\A f \in DOMAIN fch :
       /\ \A ag \in Agents : (fch[f].pc # "idle" /\ ag # fch[f].agent) => inbox'[ag] = inbox[ag]
       /\ fch'[f].atts # fch[f].atts /\ fch'[f].atts # <<>> => CurPath(f).ag = fch[f].agent]_vars

\* C15: the audit log is append-only with one line per delivery.  A step
\* changes the log only by appending the one line from=<sender>,to=<recipient>,
\* datetime=<sent_at> of a delivery a send worker completes with that step;
\* every delivery a call counts appended one line, and a call that succeeded
\* counts one delivery for each of its k recipients.
C15_AuditAppendOnly ==
  [][/\ log' # log =>
          \E w \in DOMAIN snd :
            /\ snd[w].pc = "log"
            /\ log' = Append(log, LogLine(snd[w].sender, snd[w].recips[snd[w].idx], snd[w].sent_at))
            /\ Len(snd'[w].deliveries) = Len(snd[w].deliveries) + 1
            /\ \A v \in DOMAIN snd : v # w => snd'[v] = snd[v]
     /\ \A w \in DOMAIN snd :
          Len(snd'[w].deliveries) > Len(snd[w].deliveries) =>
            /\ Len(snd'[w].deliveries) = Len(snd[w].deliveries) + 1
            /\ Len(log') = Len(log) + 1
     /\ \A w \in DOMAIN snd :
          snd'[w].pc = "ok" => Len(snd'[w].deliveries) = Len(snd'[w].recips)]_vars

C15_Witness ==
  /\ \A w \in {"s1", "s2"} : w \in SendWorkers /\ snd[w].pc = "ok"
  /\ Len(log) = 2
  /\ log[1].to = <<"a">> /\ log[2].to = <<"a">>

\* C16: a call that succeeded for k recipients has created exactly k envelope
\* files, the i-th in the inbox of the i-th recipient, with pairwise distinct
\* ids, and for each of them one copy of every uploaded file in that same
\* inbox, under a name that carries the envelope's id.
C16_OneEnvelopePerRecipient ==
  \A w \in SendWorkers : snd[w].pc = "ok" =>
    LET d == snd[w].deliveries
        k == Len(snd[w].req.recipients)
    IN /\ Len(d) = k /\ Len(created) = k
       /\ \A i \in 1..k :
            /\ d[i].recipient = sanitize_agent_name(snd[w].req.recipients[i])
            /\ created[i] = [ag |-> d[i].recipient, nm |-> d[i].message_file]
            /\ d[i].message_file \in DOMAIN inbox[d[i].recipient]
            /\ Len(d[i].attachments) = snd[w].req.nfiles
            /\ \A n \in 1..snd[w].req.nfiles :
                 /\ d[i].attachments[n].id = d[i].message_file.id
                 /\ d[i].attachments[n] \in DOMAIN inbox[d[i].recipient]
                 /\ inbox[d[i].recipient][d[i].attachments[n]] = <<Bytes(n)>>
       /\ \A i, j \in 1..k : i # j =>
            /\ d[i].message_file.id # d[j].message_file.id
            /\ Range(d[i].attachments) \cap Range(d[j].attachments) = {}
       /\ \A ag \in Agents :
            Cardinality(GlobMd(ag)) = Cardinality({i \in 1..k : d[i].recipient = ag})

C16_Witness ==
  \E w \in SendWorkers :
    /\ snd[w].pc = "ok"
    /\ snd[w].recips = << <<"a">>, <<"b">> >>
    /\ snd[w].req.nfiles = MaxFiles
    /\ \A ag \in Agents : Cardinality(DOMAIN inbox[ag]) = 1 + MaxFiles

\* C17: every envelope file and every log line a call produces carries the
\* sent_at the call took once, which is also the one in its response.
C17_OneSentAt ==
  [][\A w \in DOMAIN snd :
       /\ (snd[w].pc \in Delivering /\ snd'[w].pc \in Delivering \cup {"ok"}) =>
            snd'[w].sent_at = snd[w].sent_at
       /\ Len(snd'[w].deliveries) > Len(snd[w].deliveries) =>
            /\ log'[Len(log')].datetime = snd[w].sent_at
            /\ snd'[w].deliveries[Len(snd'[w].deliveries)].message_file.ts = snd[w].sent_at
       /\ (snd[w].pc = "create" /\ snd'[w].pc = "write") =>
            created'[Len(created')].nm.ts = snd[w].sent_at
       /\ (snd[w].pc = "write" /\ snd'[w].pc = "log") =>
            \A nm \in GlobMd(snd[w].recips[snd[w].idx])' :
              (nm.id = snd[w].uuid /\ ~Malformed(inbox'[snd[w].recips[snd[w].idx]][nm])) =>
                ParseMessage(inbox'[snd[w].recips[snd[w].idx]][nm], <<>>).sent_at = snd[w].sent_at]_vars

C17_Witness ==
  \E w \in SendWorkers :
    /\ snd[w].pc = "ok" /\ Len(snd[w].deliveries) = 2
    /\ now > snd[w].sent_at
    /\ Len(log) = 2 /\ log[1].datetime = snd[w].sent_at /\ log[2].datetime = snd[w].sent_at
    /\ \A i \in 1..2 : snd[w].deliveries[i].message_file.ts = snd[w].sent_at

\* the worker has run the checks of handle_send_message on its request
Validated(w) == snd[w].pc \in {"rejected", "ok"} \cup Delivering

\* the characters [a-z0-9_-] among the characters of the model
InClass(ch) == ch \in {"a", "b", "g", "1", "_", "-"}

\* a name whose trimmed, lower-cased form is non-empty and in [a-z0-9_-]+
Canonical(name) ==
  /\ StripLower(name) # <<>>
  /\ \A i \in 1..Len(StripLower(name)) : InClass(StripLower(name)[i])

\* the positions of the recipients that are not in the directory
UnknownAt(q) ==
  {i \in 1..Len(q.recipients) : StripLower(q.recipients[i]) \notin load_valid_people}

\* every name of the request passes sanitize_agent_name and the sender is known
NamesPass(q) ==
  /\ SanitizeOk(q.sender) /\ \A i \in 1..Len(q.recipients) : SanitizeOk(q.recipients[i])
  /\ StripLower(q.sender) \in load_valid_people

\* C18: a request whose names all canonicalize, whose sender is known and that
\* lists one or more recipients missing from the directory fails with
\* UnknownRecipients, and the error names every one of them, not only the first.
C18_NamesAllUnknown ==
  \A w \in SendWorkers :
    (Validated(w) /\ NamesPass(snd[w].req) /\ UnknownAt(snd[w].req) # {}) =>
      /\ snd[w].pc = "rejected" /\ snd[w].err = "UnknownRecipients"
      /\ Len(snd[w].detail) = Cardinality(UnknownAt(snd[w].req))
      /\ \A i \in UnknownAt(snd[w].req) :
           \E n \in 1..Len(snd[w].detail) : snd[w].detail[n] = StripLower(snd[w].req.recipients[i])
      /\ inboxDirs = {} /\ log = <<>>

C18_Witness ==
  \E w \in SendWorkers :
    /\ snd[w].pc = "rejected" /\ snd[w].err = "UnknownRecipients"
    /\ Len(snd[w].detail) = 2 /\ snd[w].detail[1] # snd[w].detail[2]

\* C19: a request is refused with InvalidAgentName exactly when the sender or a
\* recipient has a trimmed, lower-cased form that is empty or has a character
\* outside [a-z0-9_-]; an accepted request carries those forms.
C19_CanonicalNames ==
  \A w \in SendWorkers : Validated(w) =>
    LET q == snd[w].req IN
      /\ (snd[w].pc = "rejected" /\ snd[w].err = "InvalidAgentName") <=>
           ~(Canonical(q.sender) /\ \A i \in 1..Len(q.recipients) : Canonical(q.recipients[i]))
      /\ snd[w].pc \in Delivering =>
           /\ snd[w].sender = StripLower(q.sender)
           /\ snd[w].recips = [i \in 1..Len(q.recipients) |-> StripLower(q.recipients[i])]

\* C20: a request with a known sender and known recipients whose body has
\* nothing but whitespace fails with EmptyBody.
C20_EmptyBodyRejected ==
  \A w \in SendWorkers :
    (/\ Validated(w)
     /\ NamesPass(snd[w].req)
     /\ snd[w].req.recipients # <<>> /\ UnknownAt(snd[w].req) = {}
     /\ \A i \in 1..Len(snd[w].req.message) : snd[w].req.message[i] = Blank) =>
      /\ snd[w].pc = "rejected" /\ snd[w].err = "EmptyBody"
      /\ inboxDirs = {} /\ log = <<>>

C20_Witness ==
  \E w \in SendWorkers :
    /\ snd[w].pc = "rejected" /\ snd[w].err = "EmptyBody"
    /\ snd[w].req.message = <<Blank, Blank>>
    /\ snd[w].req.recipients = << <<"a">>, <<"b">> >>

\* C21: a fetch with a token that is not in the token mapping ends with
\* UnknownToken: the call lists and reads nothing, returns nothing, and neither
\* its first step nor the sending of its answer changes a directory, a file,
\* a zip or the log.
C21_UnknownToken ==
  [][\A f \in DOMAIN fch :
       /\ \A t \in TokenInputs : (t \notin DOMAIN AgentIdsFile /\ FetchStart(f, t)) =>
            /\ fch'[f] = [IdleFetch EXCEPT !.pc = "rejected", !.err = "UnknownToken"]
            /\ UNCHANGED fsVars
       /\ (fch[f].pc = "rejected" /\ fch[f].err = "UnknownToken" /\ fch'[f] # fch[f]) =>
            /\ fch'[f] = IdleFetch
            /\ UNCHANGED << fsVars, delivered >>]_vars

C21_Witness ==
  \E f \in FetchWorkers :
    /\ fch[f].pc = "rejected" /\ fch[f].err = "UnknownToken"
    /\ GlobMd(<<"a">>) # {} /\ doneDirs = {}

\* the agent's inbox directory is missing or holds no envelope file
NothingPending(ag) ==
  ag \notin inboxDirs \/ {nm \in DOMAIN inbox[ag] : nm.kind = "md"} = {}

\* the call of worker r found nothing to scan
EmptyCall(r) == r.err = "" /\ r.list = <<>> /\ r.agent # <<>>

HasMarkerPair(lines) ==
  \E i \in Positions(lines, HeaderMarker) : \E j \in Positions(lines, FooterMarker) : i < j

\* C23: decoding an envelope file without a header marker line followed by a
\* footer marker line fails with MalformedEnvelope (so every file a fetch
\* decoded has such a pair), and a file that failed stays in the inbox and is
\* not archived.
C23_NoMarkerPairFails ==
  \A f \in FetchWorkers :
    /\ Decoded(f) => HasMarkerPair(read_text(inbox[fch[f].agent][CurFile(f)]))
    /\ (fch[f].pc = "rejected" /\ fch[f].err = "MalformedEnvelope") =>
         /\ CurFile(f) \in DOMAIN inbox[fch[f].agent]
         /\ CurFile(f) \notin DOMAIN done[fch[f].agent]

\* the names of the attachment files write_message stored for envelope id in
\* ag's inbox, put in the order of their index
StoredInOrder(ag, id, names) ==
  /\ Len(names) = Cardinality(AttachmentsOf(ag, id))
  /\ \A i \in 1..Len(names) : names[i] \in AttachmentsOf(ag, id) /\ names[i].n = i

\* C25: the k-th uploaded file of the envelope with id U is stored in the
\* recipient's inbox as U-attachment<k><ext>, ext the extension of the uploaded
\* name, and a fetch that returns the envelope returns its attachments in
\* upload order under exactly those names.
C25_UploadOrderNames ==
  /\ \A w \in SendWorkers : snd[w].pc = "create" =>
       \A k \in 1..snd[w].req.nfiles :
         /\ attachment_name(snd[w].uuid, k, snd[w].req.exts[k]) \in DOMAIN inbox[Recipient(w)]
         /\ inbox[Recipient(w)][attachment_name(snd[w].uuid, k, snd[w].req.exts[k])] = <<Bytes(k)>>
  /\ \A f \in FetchWorkers : fch[f].pc = "ok" =>
       \A m \in 1..Len(fch[f].msgs) :
         StoredInOrder(fch[f].agent, fch[f].msgs[m].file.id,
                       [i \in 1..Len(fch[f].msgs[m].attachments) |->
                          fch[f].msgs[m].attachments[i].file])

\* the line of the footer marker write_message wrote: after the five header
\* lines, the trimmed body and one empty line
WrittenFooterLine(w) == 5 + Len(StripLines(snd[w].message)) + 2

\* C24: the footer of an enqueued envelope, the lines after the footer marker
\* write_message wrote, is either the line `attachments:` followed by exactly
\* one `- <path>` line per attachment, each with the path of the stored file,
\* in order (one file or more), or the single line
\* reply_url: /messages?from=<recipient>&to=<sender> (no file); and an envelope
\* enqueued without files decodes with an empty attachment list.
C24_FooterForms ==
  \A w \in SendWorkers : snd[w].pc = "log" =>
    LET r == Recipient(w)
        text == inbox[r][MessageFile(w)]
        foot == SubSeq(text, WrittenFooterLine(w) + 1, Len(text))
    IN /\ text[WrittenFooterLine(w)] = FooterMarker
       /\ snd[w].nfiles > 0 =>
            foot = << KV("attachments", <<>>, 0) >>
                   \o [k \in 1..snd[w].nfiles |-> DashExt(r, snd[w].uuid, k, snd[w].exts[k])]
       /\ snd[w].nfiles = 0 =>
            /\ foot = << ReplyUrl(r, snd[w].sender) >>
            /\ ~Malformed(read_text(text))
            /\ attachment_paths(read_text(text)) = <<>>


\* C26: the dashboard session becomes authenticated only in a run of the
\* script whose login form was submitted with the user name admin and the
\* expected password, whatever the query string of the address is; a session
\* that is not authenticated has only ever been shown the login form: no
\* record, no detail and no attachment was rendered for it
C26_LoginOnly ==
  [][/\ (ui'.authenticated /\ ~ui.authenticated) =>
          /\ ui'.form.submitted
          /\ ui'.form.username = "admin"
          /\ ui'.form.password = "password"
     /\ ui.authenticated => ui'.authenticated
     /\ ~ui'.authenticated =>
          /\ ui'.page \in {"none", "login"}
          /\ ui'.records = <<>> /\ ui'.details = <<>>
          /\ ui'.opened = NoOpen /\ ui'.resolved = <<>>]_vars

\* a session that asked for the dashboard with authenticated=true in the query
\* string and the right user name but a wrong password is at the login form,
\* while the directories hold messages
C26_Witness ==
  /\ ~ui.authenticated /\ ui.page = "login" /\ ui.error = "Invalid credentials"
  /\ ui.form = Form("authenticated=true", ADMIN_USER, "", TRUE)
  /\ ScanFrom(1) # <<>>


\* the member with the attachment's file name in the directory of the envelope
\* the viewer has open
InMessageDirectory ==
  Path(PathParent(ui.opened.member).abs,
       PathParent(ui.opened.member).parts \o PathName(ui.opened.attachment).parts)

\* C27: when the archive the viewer has open holds both a member equal to the
\* attachment's bare file name and a member with that file name in the
\* directory of the envelope, the name resolved is the one in the envelope's
\* directory; nothing is resolved only when no candidate is in the archive
C27_PrefersMessageDirectory ==
  ui.opened # NoOpen =>
    /\ ( /\ PathParent(ui.opened.member) # Path(FALSE, <<>>)
         /\ PathName(ui.opened.attachment) \in ui.opened.names
         /\ InMessageDirectory \in ui.opened.names )
       => ui.resolved = <<InMessageDirectory>>
    /\ ui.resolved = <<>> =>
         \A i \in 1..Len(candidates(ui.opened.attachment, ui.opened.member)) :
           candidates(ui.opened.attachment, ui.opened.member)[i] \notin ui.opened.names


\* the positions of ui.records that hold a record with this message_id
RecordsOf(loc, ag, nm) ==
  {i \in 1..Len(ui.records) :
     /\ ui.records[i].message_id.loc = loc
     /\ ui.records[i].message_id.ag = ag
     /\ ui.records[i].message_id.nm = nm}

\* the zips of ag's done directory that hold a .md member
ZipsWithEnvelope(ag) ==
  {st \in DOMAIN done[ag] : \E m \in DOMAIN done[ag][st].members : m.kind = "md"}

FooterPaths(text) ==
  IF Malformed(read_text(text)) THEN {}
  ELSE {attachment_paths(read_text(text))[n] : n \in 1..Len(attachment_paths(read_text(text)))}

\* envelope nm of ag is archived and its originals are gone
FullyArchived(ag, nm) ==
  /\ nm \notin DOMAIN inbox[ag]
  /\ nm \in DOMAIN done[ag]
  /\ done[ag][nm].closed /\ ~done[ag][nm].corrupt
  /\ nm \in DOMAIN done[ag][nm].members
  /\ \A p \in FooterPaths(done[ag][nm].members[nm]) :
       /\ ~Exists(p)
       /\ p.nm \in DOMAIN done[ag][nm].members

\* envelope nm of ag and the files it names are in the inbox and no zip of it
\* is in done
Untouched(ag, nm) ==
  /\ nm \in DOMAIN inbox[ag]
  /\ nm \notin DOMAIN done[ag]
  /\ \A p \in FooterPaths(inbox[ag][nm]) : Exists(p)

\* the envelopes of ag with a zip in done while the envelope file is still in
\* the inbox
InFlight(ag) == {nm \in GlobMd(ag) : nm \in DOMAIN done[ag]}

\* C29: while a fetch call works on envelope i of its scan, every envelope
\* before it in the scan is fully archived (zip closed with the envelope and
\* its attachments, originals deleted) and every envelope after it is
\* untouched; at every moment at most one envelope has its zip in done while
\* its envelope file is still in the inbox
C29_OneInFlight ==
  /\ \A ag \in Agents : Cardinality(InFlight(ag)) <= 1
  /\ \A f \in FetchWorkers :
       fch[f].list # <<>> =>
         /\ \A k \in 1..(fch[f].i - 1) : FullyArchived(fch[f].agent, fch[f].list[k])
         /\ \A k \in (fch[f].i + 1)..Len(fch[f].list) : Untouched(fch[f].agent, fch[f].list[k])
         /\ fch[f].pc = "ret" => FullyArchived(fch[f].agent, fch[f].list[fch[f].i])

\* a call works on its second envelope, whose zip holds the envelope while the
\* envelope file and its attachment are still in the inbox; the first
\* envelope and its attachment are archived
C29_Witness ==
  \E f \in FetchWorkers :
    /\ fch[f].i = 2 /\ fch[f].pc = "zip_att_chk"
    /\ InFlight(fch[f].agent) = {fch[f].list[2]}
    /\ FooterPaths(done[fch[f].agent][fch[f].list[1]].members[fch[f].list[1]]) # {}


\* C30: when a fetch call has ended, with a result or with an error, every
\* envelope that is no longer in the inbox was returned to a caller: a call
\* that ends in an error has removed no envelope
C30_ConsumedOnlyIfDelivered ==
  \A f \in FetchWorkers :
    fch[f].pc \in {"ok", "rejected", "error"} =>
      \A i \in Ids : MdName(i, i) \notin DOMAIN inbox[<<"a">>] => delivered[i] > 0


\* a's zip for envelope nm is completely written: closed, with its directory
WrittenZip(nm) ==
  /\ nm \in DOMAIN done[<<"a">>]
  /\ done[<<"a">>][nm].closed /\ ~done[<<"a">>][nm].corrupt

\* the contents held for file nm of message id in a's mailbox: that of the
\* original in the inbox and that of the member of the message's written zip
Copies(id, nm) ==
  (IF nm \in DOMAIN inbox[<<"a">>] THEN {inbox[<<"a">>][nm]} ELSE {})
  \cup (IF WrittenZip(MdName(id, id)) /\ nm \in DOMAIN done[<<"a">>][MdName(id, id)].members
        THEN {done[<<"a">>][MdName(id, id)].members[nm]} ELSE {})

\* C31: while fetch calls run one at a time over a's inbox, with a failure
\* possible at every filesystem step, no step leaves an envelope file or an
\* attachment file without a full copy: a file that had a copy in the inbox
\* or in a closed zip before the step has one after it, with the same content
C31_AlwaysOneFullCopy ==
  [][\A id \in Ids : \A nm \in {MdName(id, id), AttName(id, 1)} :
       Copies(id, nm) # {} =>
         /\ Copies(id, nm)' # {}
         /\ Copies(id, nm)' \subseteq Copies(id, nm)]_vars

\* a call failed after it unlinked the first envelope and before it unlinked
\* the attachment: the envelope is held by the closed zip only, the attachment
\* by the inbox and the zip
C31_Witness ==
  /\ fch["f1"].pc = "error" /\ fch["f1"].err = "StorageFailure"
  /\ MdName(1, 1) \notin DOMAIN inbox[<<"a">>]
  /\ Copies(1, MdName(1, 1)) # {}
  /\ AttName(1, 1) \in DOMAIN inbox[<<"a">>]
  /\ WrittenZip(MdName(1, 1)) /\ AttName(1, 1) \in DOMAIN done[<<"a">>][MdName(1, 1)].members


\* done/<stem>.zip of ag is a written zip that holds the envelope file and
\* every attachment the envelope's footer names
HoldsMessage(ag, stem) ==
  /\ stem \in DOMAIN done[ag]
  /\ done[ag][stem].closed /\ ~done[ag][stem].corrupt
  /\ stem \in DOMAIN done[ag][stem].members
  /\ \A p \in FooterPaths(done[ag][stem].members[stem]) :
       p.nm \in DOMAIN done[ag][stem].members

\* C32: a zip in done that holds an envelope and its attachments still holds
\* them after every step that leaves the zip in done: no archive step of any
\* fetch call replaces it by a zip without the envelope or an attachment
C32_ArchiveNeverDegraded ==
  [][\A ag \in Agents : \A stem \in DOMAIN done[ag] :
       (HoldsMessage(ag, stem) /\ stem \in DOMAIN done'[ag]) =>
         /\ HoldsMessage(ag, stem)'
         /\ done'[ag][stem].members = done[ag][stem].members]_vars


\* write_message has returned for the envelope of message id, addressed to a
Enqueued(id) ==
  \E w \in SendWorkers : \E k \in 1..Len(snd[w].deliveries) :
    /\ snd[w].deliveries[k].recipient = <<"a">>
    /\ snd[w].deliveries[k].message_file.id = id

\* C33: while sends write to a's inbox, fetch calls with a token of a keep
\* arriving and every call runs to its end, every envelope that was enqueued
\* to a is eventually returned by a fetch call
C33_EventuallyReturned == \A id \in Ids : Enqueued(id) ~> (delivered[id] > 0)


\* the fetch call that works on file nm of ag's inbox: nm is the envelope of
\* its scan it is at, or an attachment that envelope names
WorksOn(f, ag, nm) ==
  /\ fch[f].pc \notin {"idle", "ret", "ok", "rejected", "error"}
  /\ fch[f].agent = ag
  /\ \/ nm = CurFile(f)
     \/ [ag |-> ag, nm |-> nm] \in Range(fch[f].paths)

\* the list of envelope files of a running call is the one of its scan
ScanKept ==
  \A f \in FetchWorkers :
    fch[f].pc # "idle" => (fch'[f].list = fch[f].list \/ fch'[f].list = <<>>)

\* a file leaves an inbox, or a zip of its name appears in done, only for a
\* file a call works on
OnlyScanned ==
  \A ag \in Agents : \A nm \in DOMAIN inbox[ag] :
    (nm \notin DOMAIN inbox'[ag] \/ (nm \in DOMAIN done'[ag] /\ nm \notin DOMAIN done[ag]))
      => \E f \in FetchWorkers : WorksOn(f, ag, nm)

\* C34: every fetch call ends, with a result or an error, while sends keep
\* writing envelopes into the same inbox; the call works through the envelope
\* files its one scan listed, and a file that came into the inbox after the
\* scan is neither removed nor archived by it
C34_FetchTerminates ==
  /\ \A f \in {"f1"} : (fch[f].pc # "idle") ~> (fch[f].pc \in {"ok", "rejected", "error"})
  /\ [][ScanKept /\ OnlyScanned]_vars

\* a call has returned the one envelope its scan listed while a second
\* envelope, written after the scan, is complete in the inbox and not archived
C34_Witness ==
  /\ fch["f1"].pc = "ok" /\ Len(fch["f1"].msgs) = 1
  /\ \E nm \in GlobMd(<<"a">>) :
       /\ nm \notin Range(fch["f1"].list)
       /\ ~Malformed(read_text(inbox[<<"a">>][nm]))
       /\ nm \notin DOMAIN done[<<"a">>]
  /\ snd["s1"].pc = "ok"


\* write_message of worker w has written its files: every uploaded file and
\* the envelope were created in the recipient's inbox, and each of them that
\* is still there holds its full content
FilesWritten(w) ==
  LET r == Recipient(w)
      nm == make_message_filename(snd[w].uuid, snd[w].sent_at)
  IN /\ [ag |-> r, nm |-> nm] \in Range(created)
     /\ nm \in DOMAIN inbox[r] =>
          inbox[r][nm] = EnvelopeText(snd[w].sender, r, snd[w].message, snd[w].sent_at,
                                      snd[w].uuid, snd[w].exts)
     /\ \A k \in 1..snd[w].nfiles :
          LET att == attachment_name(snd[w].uuid, k, snd[w].exts[k])
          IN /\ [ag |-> r, nm |-> att] \in attWritten
             /\ att \in DOMAIN inbox[r] => inbox[r][att] = <<Bytes(k)>>

\* no more log lines name a recipient and a time than envelope files were
\* created for that recipient with that time
LogCovered ==
  \A n \in 1..Len(log) :
    Cardinality({m \in 1..Len(log) : log[m].to = log[n].to /\ log[m].datetime = log[n].datetime})
      <= Cardinality({m \in 1..Len(created) :
                        created[m].ag = log[n].to /\ created[m].nm.ts = log[n].datetime})

\* C35: a step appends a line to the audit log only for a delivery whose
\* attachments and envelope file have been written to the recipient's inbox,
\* and in every state reached, failed calls included, every log line has an
\* envelope file that was created for it
C35_LogAfterFiles ==
  [][/\ log' # log =>
          \E w \in SendWorkers :
            /\ snd[w].pc = "log"
            /\ log' = Append(log, LogLine(snd[w].sender, Recipient(w), snd[w].sent_at))
            /\ FilesWritten(w)
     /\ LogCovered']_vars

\* one delivery is logged, and a later write_message failed after it had
\* created its envelope file: that file has no log line
C35_Witness ==
  /\ Len(log) = 1 /\ Len(created) = 2
  /\ \E w \in SendWorkers : snd[w].pc = "error" /\ snd[w].err = "StorageFailure"
  /\ \A w \in SendWorkers : snd[w].pc \notin {"create", "write", "log"}


\* C36: a step of a fetch call for agent X changes no file of another
\* agent's inbox and no zip of another agent's done directory, and every
\* attachment the call reads lies in X's inbox
C36_OtherMailboxesUntouched ==
  [][\A f \in FetchWorkers :
       (fch[f].pc # "idle" /\ fch'[f] # fch[f]) =>
         /\ \A ag \in Agents \ {fch[f].agent} :
              inbox'[ag] = inbox[ag] /\ done'[ag] = done[ag]
         /\ fch'[f].atts # fch[f].atts /\ fch'[f].atts # <<>>
              => CurPath(f).ag = fch[f].agent]_vars


\* the checks of handle_send_message that fail on request q, each taken by
\* itself: a name sanitize_agent_name raises on, a sender missing from the
\* directory, no recipient, a recipient missing from the directory, a body of
\* white space
FailedChecks(q) ==
  (IF ~SanitizeOk(q.sender) \/ \E i \in 1..Len(q.recipients) : ~SanitizeOk(q.recipients[i])
   THEN {1} ELSE {})
  \cup (IF StripLower(q.sender) \notin load_valid_people THEN {2} ELSE {})
  \cup (IF q.recipients = <<>> THEN {3} ELSE {})
  \cup (IF UnknownAt(q) # {} THEN {4} ELSE {})
  \cup (IF \A i \in 1..Len(q.message) : q.message[i] = Blank THEN {5} ELSE {})

ErrorOrder ==
  << "InvalidAgentName", "UnknownSender", "NoRecipients", "UnknownRecipients", "EmptyBody" >>

\* C37: a request on which one or more checks of the enqueue fail is refused
\* with the error of the first failing check in the order invalid agent name,
\* unknown sender, empty recipient list, unknown recipients, empty body, and
\* writes nothing; a request on which none fails is not refused.
C37_FirstErrorInOrder ==
  \A w \in SendWorkers : Validated(w) =>
    IF FailedChecks(snd[w].req) = {}
    THEN snd[w].pc # "rejected"
    ELSE /\ snd[w].pc = "rejected"
         /\ snd[w].err = ErrorOrder[Min(FailedChecks(snd[w].req))]
         /\ inboxDirs = {} /\ log = <<>>

\* a refused request on which four checks fail at once: the sender is not in
\* the directory, sanitize_agent_name raises on the recipient, and the body is
\* blank
C37_Witness ==
  \E w \in SendWorkers :
    /\ snd[w].pc = "rejected" /\ snd[w].err = "InvalidAgentName"
    /\ FailedChecks(snd[w].req) = {1, 2, 4, 5}
    /\ SanitizeOk(snd[w].req.sender)


\* an entry of the id mapping whose name sanitize_agent_name raises on or is
\* not in the people directory
BadEntries == {t \in DOMAIN agent_ids :
                 ~SanitizeOk(agent_ids[t]) \/ StripLower(agent_ids[t]) \notin load_valid_people}

\* every call ends with the error of the mapping, and no step changes a
\* directory, a file, a zip or the log
AllFetchesFail ==
  /\ \A f \in FetchWorkers :
       /\ fch'[f].pc \in {"idle", "rejected"}
       /\ fch'[f].pc = "rejected" => fch'[f].err = "BadMapping"
       /\ fch'[f].msgs = <<>>
  /\ UNCHANGED << fsVars, delivered >>

\* C38 as stated: with any entry of the mapping naming an invalid or unknown
\* agent, every fetch fails, whatever its token, and no mailbox is modified.
C38_AnyBadEntryFailsAll ==
  [][BadEntries # {} => AllFetchesFail]_vars

\* C38, amended: with an entry of the mapping whose token is not blank naming
\* an invalid or unknown agent, every fetch fails, whatever its token, and no
\* mailbox is modified; an entry with a blank token is skipped unread.
C38_BadTokenEntryFailsAll ==
  [][BadEntries \cap TokenKeys # {} => AllFetchesFail]_vars

\* a fetch with token t1, which names a known agent whose inbox holds an
\* envelope, has failed because the entry of t3 names an unknown agent
C38_Witness ==
  /\ agent_ids["t1"] = <<"a">> /\ agent_ids["t3"] = <<"g">>
  /\ \E f \in FetchWorkers : fch[f].pc = "rejected" /\ fch[f].err = "BadMapping"
  /\ MdName(1, 1) \in DOMAIN inbox[<<"a">>]


\* C39: for every envelope file write_message has written, parse_message_text
\* of the dashboard and _parse_message_file of fetch give the same sender,
\* recipient, sent_at, body and list of attachments.
C39_DecodersAgree ==
  \A w \in SendWorkers : snd[w].pc = "log" =>
    LET lines == read_text(inbox[Recipient(w)][MessageFile(w)])
        shown == parse_message_text(lines)
        fetched == ParseMessage(lines, <<>>)
    IN /\ shown.sender = fetched.from
       /\ shown.recipient = fetched.to
       /\ shown.sent_at = fetched.sent_at
       /\ shown.body = fetched.message
       /\ shown.attachments = attachment_paths(lines)

=============================================================================
